---- MODULE Spec2Model ----
(***************************************************************************)
(* Model of gateway_addon: the AddonManagerProxy receive loop and its      *)
(* per-message worker threads, and the Property / Device / Adapter         *)
(* objects the workers act on.                                             *)
(*                                                                         *)
(* Values are integers.  Python's None is NoneVal; a key that is absent    *)
(* from a dict is Absent (numbers) or "-" (strings).  True and False are   *)
(* 1 and 0, which is how Python compares them (True == 1).                 *)
(***************************************************************************)
EXTENDS Integers, Sequences, FiniteSets, TLC

\* ---------------------------------------------------------------- bounds
MaxVal == 3          \* property values and candidates range over 0..MaxVal
MaxLog == 2          \* calls on a bare Property stop once the log is this long
MaxMsgs == 2         \* inbound messages read by the receive loop
MaxNotes == 3        \* calls on Action objects that notify the device
MaxTime == 2         \* seconds the clock advances
MaxFrames == 3       \* frames the websocket delivers to the IpcClient
MaxSends == 3        \* direct calls of AddonManagerProxy.send

NoneVal == 0 - 1     \* Python None as a property value
Absent == 0 - 2      \* key not present in a dict

Values == 0 .. MaxVal

VARIABLES
  value,            \* Property.value of property p1 on device d1
  description,      \* Property.description
  fire_and_forget,  \* Property.fire_and_forget
  bypassed,         \* history: set_cached_value was called directly
  lastCall,         \* history: the last direct call on the Property
  running,          \* AddonManagerProxy.running
  sockets,          \* state of ipc_client's sockets: "open" / "closed"
  loop,             \* position of the recv thread
  nread,            \* number of messages the recv thread has read
  msg,              \* recv's local `msg` (a closure cell shared with workers)
  device_id,        \* recv's local `device_id` (closure cell)
  adapter_id,       \* recv's local `adapter_id` (closure cell)
  notifier_id,      \* recv's local `notifier_id` (closure cell)
  package_name,     \* recv's local `package_name` (closure cell)
  adapters,         \* keys of AddonManagerProxy.adapters
  notifiers,        \* keys of AddonManagerProxy.notifiers
  api_handlers,     \* keys of AddonManagerProxy.api_handlers
  devices,          \* keys of Adapter.devices of adapter a1
  workers,          \* the threads started by make_thread, in start order
  log,              \* history, per thread: envelopes written and hooks run
  action,           \* the Action objects of device d1, by action id
  now,              \* the clock that utils.timestamp() reads, in seconds
  ipc,              \* the IpcClient: its fields and its threads' positions
  membership        \* history: the last membership operation, per device id

propVars == <<value, description, fire_and_forget, bypassed, lastCall>>
cellVars == <<msg, device_id, adapter_id, notifier_id, package_name>>
regVars == <<adapters, notifiers, api_handlers, devices>>
loopVars == <<running, sockets, loop, nread>>
objVars == <<action, now, ipc, membership>>
vars == <<propVars, cellVars, regVars, loopVars, workers, log, objVars>>

\* ------------------------------------------------------------ the log
\* log[t] lists the observable effects of thread t in the order the thread
\* produced them; t is the index of the worker in `workers`, 0 for any other
\* thread.  ev = "send" for an envelope written to plugin_socket, "hook" for
\* a call into add-on code, "new" for an object constructed.
Entry(ev, mt, by) ==
  [ev |-> ev, mt |-> mt, by |-> by, ad |-> "-", dev |-> "-", name |-> "-",
   aid |-> "-", val |-> Absent, ok |-> "-", mid |-> "-", via |-> "-",
   pluginId |-> "-"]

\* AddonManagerProxy.plugin_id
plugin_id == "plugin"

\* data['pluginId'] = self.plugin_id
Stamp(e) == [e EXCEPT !.pluginId = plugin_id]

send_unstamped(lg, sock, e) ==
  IF sock = "open" THEN Append(lg, e) ELSE lg

\* AddonManagerProxy.send: data gets the plugin id and the envelope
\* {messageType, data} is written; the write fails with NNError on a
\* closed socket, which send catches and prints.
send(lg, sock, e) ==
  IF sock = "open" THEN Append(lg, Stamp(e)) ELSE lg

Sent(lg) == SelectSeq(lg, LAMBDA e : e.ev = "send")

\* AddonManagerProxy.send_property_changed_notification: the envelope
\* carries prop.as_dict(), i.e. the value cached at the time of the call.
\* via records the caller: "property" for Device.notify_property_changed
\* called from set_cached_value_and_notify, "worker" for set_prop_fn.
PropertyChanged(by, val, via) ==
  [Entry("send", "DEVICE_PROPERTY_CHANGED_NOTIFICATION", by)
     EXCEPT !.ad = "a1", !.dev = "d1", !.name = "p1", !.val = val,
            !.via = via]

\* ----------------------------------------------------------- Property
\* A description as Property.__init__ stores it.  readOnly is "absent",
\* "false" or "true"; minimum, maximum and multipleOf are Absent or a
\* number; enum is a set, empty when the key is absent or the list empty.
IntegerDescriptions ==
  [type : {"integer"}, readOnly : {"absent", "false", "true"},
   minimum : {Absent} \cup Values, maximum : {Absent} \cup Values,
   multipleOf : {Absent, 1, 2}, enum : {{}, {0, 2}, {1, MaxVal}}]

\* A boolean property has no numeric constraints; its enum, if any, lists
\* booleans.
BooleanDescriptions ==
  [type : {"boolean"}, readOnly : {"absent", "false", "true"},
   minimum : {Absent}, maximum : {Absent}, multipleOf : {Absent},
   enum : SUBSET {0, 1}]

Descriptions == IntegerDescriptions \cup BooleanDescriptions

\* Python's bool(value)
bool(v) == IF v = NoneVal \/ v = 0 THEN 0 ELSE 1

\* Python's round(v / m) for m > 0: nearest integer, ties to even.
round_div(v, m) ==
  LET q == v \div m
      r == v % m
  IN  IF 2 * r < m THEN q
      ELSE IF 2 * r > m THEN q + 1
      ELSE IF q % 2 = 0 THEN q ELSE q + 1

not_multiple_floordiv(v, m) == (v \div m) # round_div(v, m)

\* value / multiple_of - round(value / multiple_of) != 0, in exact
\* arithmetic: the difference is zero iff round(v/m) * m = v.
not_multiple(v, m) == round_div(v, m) * m # v

CheckNoReadOnly(d, v) ==
  IF d.minimum # Absent /\ v < d.minimum THEN "minimum"
  ELSE IF d.maximum # Absent /\ v > d.maximum THEN "maximum"
  ELSE IF d.multipleOf # Absent /\ not_multiple(v, d.multipleOf)
       THEN "multipleOf"
  ELSE IF d.enum # {} /\ v \notin d.enum THEN "enum"
  ELSE "ok"

CheckNoMinimum(d, v) ==
  IF d.readOnly = "true" THEN "readOnly"
  ELSE IF d.maximum # Absent /\ v > d.maximum THEN "maximum"
  ELSE IF d.multipleOf # Absent /\ not_multiple(v, d.multipleOf)
       THEN "multipleOf"
  ELSE IF d.enum # {} /\ v \notin d.enum THEN "enum"
  ELSE "ok"

CheckNoMaximum(d, v) ==
  IF d.readOnly = "true" THEN "readOnly"
  ELSE IF d.minimum # Absent /\ v < d.minimum THEN "minimum"
  ELSE IF d.multipleOf # Absent /\ not_multiple(v, d.multipleOf)
       THEN "multipleOf"
  ELSE IF d.enum # {} /\ v \notin d.enum THEN "enum"
  ELSE "ok"

\* The checks with the enum test ahead of the numeric ones.
CheckEnumFirst(d, v) ==
  IF d.readOnly = "true" THEN "readOnly"
  ELSE IF d.enum # {} /\ v \notin d.enum THEN "enum"
  ELSE IF d.minimum # Absent /\ v < d.minimum THEN "minimum"
  ELSE IF d.maximum # Absent /\ v > d.maximum THEN "maximum"
  ELSE IF d.multipleOf # Absent /\ not_multiple(v, d.multipleOf)
       THEN "multipleOf"
  ELSE "ok"

\* The checks of Property.set_value, in the order of the code: "ok" when
\* the candidate passes, otherwise the check whose PropertyError is raised.
Check(d, v) ==
  IF d.readOnly = "true" THEN "readOnly"
  ELSE IF d.minimum # Absent /\ v < d.minimum THEN "minimum"
  ELSE IF d.maximum # Absent /\ v > d.maximum THEN "maximum"
  ELSE IF d.multipleOf # Absent /\ not_multiple(v, d.multipleOf)
       THEN "multipleOf"
  ELSE IF d.enum # {} /\ v \notin d.enum THEN "enum"
  ELSE "ok"

\* Property.set_cached_value: the value stored for v.
set_cached_value(d, v) ==
  IF d.type = "boolean" THEN bool(v) ELSE v

\* lastCall without its own history.
Bare(c) ==
  [op |-> c.op, arg |-> c.arg, err |-> c.err, old |-> c.old,
   notified |-> c.notified]

NoCall ==
  [op |-> "none", arg |-> Absent, err |-> "ok", old |-> NoneVal,
   notified |-> FALSE, logLen |-> 0,
   prev |-> [op |-> "none", arg |-> Absent, err |-> "ok", old |-> NoneVal,
             notified |-> FALSE]]

set_value_compares_candidate(v) ==
  /\ Len(log[0]) < MaxLog
  /\ LET err == Check(description, v)
         new == IF err = "ok" THEN set_cached_value(description, v)
                ELSE value
         has_changed == err = "ok" /\ value # v
     IN  /\ value' = new
         /\ log' = IF has_changed
                   THEN [log EXCEPT ![0] =
                           send(@, sockets,
                                PropertyChanged(0, new, "property"))]
                   ELSE log
         /\ lastCall' = [op |-> "set_value", arg |-> v, err |-> err,
                         old |-> value, notified |-> has_changed,
                         logLen |-> Len(log[0]), prev |-> Bare(lastCall)]
  /\ UNCHANGED <<objVars, description, fire_and_forget, bypassed>>
  /\ UNCHANGED <<cellVars, regVars, loopVars, workers>>

\* Property.set_value(v) called by one thread with no other thread running:
\* the checks, then set_cached_value_and_notify.
set_value(v) ==
  /\ Len(log[0]) < MaxLog
  /\ LET err == Check(description, v)
         new == IF err = "ok" THEN set_cached_value(description, v)
                ELSE value
         has_changed == err = "ok" /\ value # new
     IN  /\ value' = new
         /\ log' = IF has_changed
                   THEN [log EXCEPT ![0] =
                           send(@, sockets,
                                PropertyChanged(0, new, "property"))]
                   ELSE log
         /\ lastCall' = [op |-> "set_value", arg |-> v, err |-> err,
                         old |-> value, notified |-> has_changed,
                         logLen |-> Len(log[0]), prev |-> Bare(lastCall)]
  /\ UNCHANGED <<objVars, description, fire_and_forget, bypassed>>
  /\ UNCHANGED <<cellVars, regVars, loopVars, workers>>

\* set_cached_value running the checks of set_value before it stores.
SetCachedValueChecked(v) ==
  /\ Len(log[0]) < MaxLog
  /\ LET err == Check(description, v)
     IN  /\ value' = IF err = "ok" THEN set_cached_value(description, v)
                     ELSE value
         /\ lastCall' = [op |-> "set_cached_value", arg |-> v, err |-> err,
                         old |-> value, notified |-> FALSE,
                         logLen |-> Len(log[0]), prev |-> Bare(lastCall)]
  /\ bypassed' = TRUE
  /\ UNCHANGED <<objVars, description, fire_and_forget, log>>
  /\ UNCHANGED <<cellVars, regVars, loopVars, workers>>

\* Property.set_cached_value(v) called by the device's own logic.
SetCachedValue(v) ==
  /\ Len(log[0]) < MaxLog
  /\ value' = set_cached_value(description, v)
  /\ bypassed' = TRUE
  /\ lastCall' = [op |-> "set_cached_value", arg |-> v, err |-> "ok",
                  old |-> value, notified |-> FALSE, logLen |-> Len(log[0]),
                  prev |-> Bare(lastCall)]
  /\ UNCHANGED <<objVars, description, fire_and_forget, log>>
  /\ UNCHANGED <<cellVars, regVars, loopVars, workers>>

\* ------------------------------------------------- callers of send
\* What a caller passes as data: None, or a dict, which may already have
\* a pluginId key and may have a message key.
Datas ==
  {[none |-> TRUE, pluginId |-> "-", message |-> "-"]}
    \cup [none : {FALSE}, pluginId : {"-", "other"}, message : {"-", "m"}]

SendTypes ==
  {"PLUGIN_ERROR_NOTIFICATION", "ADAPTER_ADDED_NOTIFICATION",
   "DEVICE_CONNECTED_STATE_NOTIFICATION"}

\* proxy.send(mt, d) called from add-on code: `if data is None: data = {}`,
\* then the rest of send.  via is history: what the caller passed.
SendCall(mt, d) ==
  /\ Len(log[0]) < MaxSends
  /\ log' = [log EXCEPT ![0] =
               send(@, sockets,
                    [Entry("send", mt, 0)
                       EXCEPT !.pluginId = d.pluginId, !.name = d.message,
                              !.via = IF d.none THEN "None" ELSE "dict"])]
  /\ UNCHANGED <<objVars, propVars, cellVars, regVars, loopVars, workers>>

\* Adapter.close_proxy(): AddonManagerProxy.close().
close_proxy ==
  /\ running
  /\ running' = FALSE
  /\ sockets' = "closed"
  /\ UNCHANGED <<objVars, propVars, cellVars, regVars, loop, nread, workers,
                 log>>

NextSend ==
  \/ \E mt \in SendTypes, d \in Datas : SendCall(mt, d)
  \/ close_proxy

\* ------------------------------------------------------------- Action
ActionIds == {"x1", "x2"}

\* No Action with this id has been constructed.  last is history: the last
\* call on the object; back is history: some call moved status to an
\* earlier stage of created -> pending -> completed.
NoAction ==
  [status |-> "-", time_requested |-> NoneVal, time_completed |-> NoneVal,
   last |-> "-", back |-> FALSE]

Stage(st) ==
  CASE st = "created" -> 1 [] st = "pending" -> 2 [] st = "completed" -> 3
    [] OTHER -> 0

\* AddonManagerProxy.send_action_status_notification: the envelope carries
\* action.as_dict(), i.e. id, name, status, timeRequested, timeCompleted.
ActionStatus(id, a) ==
  [Entry("send", "DEVICE_ACTION_STATUS_NOTIFICATION", 0)
     EXCEPT !.ad = "a1", !.dev = "d1", !.name = "act2", !.aid = id,
            !.ok = a.status, !.val = a.time_completed]

\* Action.__init__
NewAction(id) ==
  /\ action[id] = NoAction
  /\ action' = [action EXCEPT ![id] =
                  [status |-> "created", time_requested |-> now,
                   time_completed |-> NoneVal, last |-> "init",
                   back |-> FALSE]]
  /\ UNCHANGED <<now, ipc, membership, propVars, cellVars, regVars, loopVars, workers,
                 log>>

\* A call on a constructed Action that ends with device.action_notify(self).
ActionCall(id, a) ==
  /\ action[id] # NoAction
  /\ Len(log[0]) < MaxNotes
  /\ action' = [action EXCEPT ![id] =
                  [a EXCEPT !.back = @ \/ Stage(a.status) < Stage(action[id].status)]]
  /\ log' = [log EXCEPT ![0] = send(@, sockets, ActionStatus(id, a))]
  /\ UNCHANGED <<now, ipc, membership, propVars, cellVars, regVars, loopVars, workers>>

\* Action.start
Start(id) ==
  ActionCall(id, [action[id] EXCEPT !.status = "pending", !.last = "start"])

FinishNoTime(id) ==
  ActionCall(id, [action[id] EXCEPT !.status = "completed",
                                    !.last = "finish"])

\* Action.finish
Finish(id) ==
  ActionCall(id, [action[id] EXCEPT !.status = "completed",
                                    !.time_completed = now,
                                    !.last = "finish"])

\* A second passes on the clock read by timestamp().
Tick ==
  /\ now < MaxTime
  /\ now' = now + 1
  /\ UNCHANGED <<action, ipc, membership, propVars, cellVars, regVars, loopVars, workers,
                 log>>

\* Calls of add-on code on the Action objects of a device.
NextActionObject ==
  \/ \E id \in ActionIds : NewAction(id)
  \/ \E id \in ActionIds : Start(id)
  \/ \E id \in ActionIds : Finish(id)
  \/ Tick

\* ---------------------------------------------------------- IpcClient
\* IpcClient.__init__ has started the websocket thread and is in its wait
\* loop.  ws is the connection ("connecting", "open", "closed"); init is
\* the position of __init__ ("waiting" in `while not self.registered`,
\* "returned"); sent says whether on_open's register request was written;
\* handed lists the messages passed to owner_message_handler, each with
\* the value `registered` had at that time; last is the outcome of the
\* last on_message call ("registering" while the call for a register
\* response has assigned the session fields and not yet the flag); params
\* says whether gateway_version, user_profile and preferences are assigned.
IpcStart ==
  [registered |-> FALSE, params |-> FALSE, ws |-> "connecting",
   init |-> "waiting", sent |-> FALSE, handed |-> << >>, frames |-> 0,
   last |-> "-"]

\* The IpcClient of a proxy whose constructor has returned.
IpcRegistered ==
  [registered |-> TRUE, params |-> TRUE, ws |-> "open", init |-> "returned",
   sent |-> TRUE, handed |-> << >>, frames |-> 1, last |-> "registered"]

IpcFrame == UNCHANGED <<action, now, membership, propVars, cellVars, regVars, loopVars,
                        workers, log>>

\* ws.run_forever() fails to connect, or the connection ends: the
\* websocket thread returns.  Nothing else is told.
WsClose ==
  /\ ipc.ws \in {"connecting", "open"}
  /\ ipc' = [ipc EXCEPT !.ws = "closed"]
  /\ IpcFrame

\* IpcClient.on_open: send the register request; a WebSocketException is
\* printed and on_open returns.
on_open ==
  /\ ipc.ws = "connecting"
  /\ \E ok \in BOOLEAN : ipc' = [ipc EXCEPT !.ws = "open", !.sent = ok]
  /\ IpcFrame

\* The frames a gateway sends: bytes that are not JSON, JSON that fails the
\* schema, the register response, and two other valid messages.
Frames == {"bad_json", "bad_schema", "PLUGIN_REGISTER_RESPONSE", "m1", "m2"}

\* on_message assigning `registered` ahead of the session fields.
on_message_flag_first(f) ==
  /\ ipc.ws = "open"
  /\ ipc.last # "registering"
  /\ ipc.frames < MaxFrames
  /\ f = "PLUGIN_REGISTER_RESPONSE" => ipc.sent
  /\ ipc' =
       IF f = "bad_json"
       THEN [ipc EXCEPT !.frames = @ + 1, !.last = "UnboundLocalError"]
       ELSE IF f = "bad_schema"
       THEN [ipc EXCEPT !.frames = @ + 1, !.last = "invalid"]
       ELSE IF f = "PLUGIN_REGISTER_RESPONSE"
       THEN [ipc EXCEPT !.frames = @ + 1, !.last = "registering",
                        !.registered = TRUE]
       ELSE [ipc EXCEPT !.frames = @ + 1, !.last = "handed",
                        !.handed = Append(@, [kind |-> f,
                                              reg |-> ipc.registered])]
  /\ IpcFrame

\* IpcClient.on_message(f), up to the assignment of `registered`.
\* json.loads raising ValueError reaches the except clause, whose print
\* reads the unassigned `resp`; a ValidationError is printed; the register
\* response assigns the session fields; any other message goes to the
\* owner's handler.  The websocket thread runs one callback at a time.
\* The gateway answers only a register request it has received.
on_message(f) ==
  /\ ipc.ws = "open"
  /\ ipc.last # "registering"
  /\ ipc.frames < MaxFrames
  /\ f = "PLUGIN_REGISTER_RESPONSE" => ipc.sent
  /\ ipc' =
       IF f = "bad_json"
       THEN [ipc EXCEPT !.frames = @ + 1, !.last = "UnboundLocalError"]
       ELSE IF f = "bad_schema"
       THEN [ipc EXCEPT !.frames = @ + 1, !.last = "invalid"]
       ELSE IF f = "PLUGIN_REGISTER_RESPONSE"
       THEN [ipc EXCEPT !.frames = @ + 1, !.last = "registering",
                        !.params = TRUE]
       ELSE [ipc EXCEPT !.frames = @ + 1, !.last = "handed",
                        !.handed = Append(@, [kind |-> f,
                                              reg |-> ipc.registered])]
  /\ IpcFrame

\* `self.registered = True`, the last statement of on_message for a
\* register response.
SetRegistered ==
  /\ ipc.last = "registering"
  /\ ipc' = [ipc EXCEPT !.registered = TRUE, !.last = "registered"]
  /\ IpcFrame

\* The loop `while not self.registered: time.sleep(0.01)` of __init__:
\* it is left when a test finds registered true, and only then.
Wait ==
  /\ ipc.init = "waiting"
  /\ ipc.registered
  /\ ipc' = [ipc EXCEPT !.init = "returned"]
  /\ IpcFrame

NextIpc ==
  \/ WsClose
  \/ on_open
  \/ \E f \in Frames : on_message(f)
  \/ SetRegistered
  \/ Wait

\* An inbound message as recv holds it.  valid says whether the bytes are
\* UTF-8 JSON; json is FALSE while `msg` still holds the raw bytes and TRUE
\* once json.loads has replaced them by the decoded object.  A key that is
\* absent from the object is "-" (Absent for numbers); payload stands for
\* the remaining operation-specific keys (pin, username and password,
\* title, message and level, request), "y" when they are all present.
\* scalar says that the JSON text is null, a number or a boolean and not an
\* object.
NoMsg ==
  [json |-> FALSE, valid |-> FALSE, scalar |-> FALSE,
   messageType |-> "-", hasData |-> FALSE,
   packageName |-> "-", notifierId |-> "-", adapterId |-> "-",
   deviceId |-> "-", timeout |-> "-", propertyName |-> "-",
   propertyValue |-> Absent, actionId |-> "-", actionName |-> "-",
   input |-> Absent, messageId |-> "-", outletId |-> "-", payload |-> "-"]

\* The ids of the Device objects the add-on hands to handle_device_added
\* and handle_device_removed of adapter a1.
DeviceIds == {"d1"}

\* The proxy as AddonManagerProxy.__init__ leaves it, with one adapter,
\* one notifier and one API handler added and device d1 handled.
ProxyInit ==
  /\ running = TRUE
  /\ sockets = "open"
  /\ loop = "reading"
  /\ nread = 0
  /\ msg = NoMsg
  /\ device_id = "-"
  /\ adapter_id = "-"
  /\ notifier_id = "-"
  /\ package_name = "-"
  /\ adapters = {"a1"}
  /\ notifiers = {"n1"}
  /\ api_handlers = {"h1"}
  /\ devices = {"d1"}
  /\ membership = [d \in DeviceIds |-> IF d = "d1" THEN "added" ELSE "none"]
  /\ workers = <<>>
  /\ log = [t \in 0 .. MaxMsgs |-> <<>>]
  /\ action = [id \in ActionIds |-> NoAction]
  /\ now = 0

\* A Property as Property.__init__ leaves it.
InitProperty ==
  /\ value = NoneVal
  /\ description \in Descriptions
  /\ fire_and_forget = FALSE
  /\ bypassed = FALSE
  /\ lastCall = NoCall
  /\ ProxyInit
  /\ ipc = IpcRegistered

NextProperty ==
  \/ \E v \in Values : set_value(v)
  \/ \E v \in Values : SetCachedValue(v)

\* Calls on one Property from a single thread.
SpecProperty == InitProperty /\ [][NextProperty]_vars

\* ------------------------------------------------------ inbound messages
J(mt) == [NoMsg EXCEPT !.valid = TRUE, !.messageType = mt]
D(mt) == [J(mt) EXCEPT !.hasData = TRUE]

\* Bytes that are not UTF-8 JSON.
BadJson == NoMsg

\* JSON text that decodes to None, a number or a boolean.
JsonScalar == [NoMsg EXCEPT !.valid = TRUE, !.scalar = TRUE]

\* The message types recv compares against (constants.MessageType).
Types ==
  {"PLUGIN_UNLOAD_REQUEST", "API_HANDLER_UNLOAD_REQUEST",
   "API_HANDLER_API_REQUEST", "NOTIFIER_UNLOAD_REQUEST",
   "OUTLET_NOTIFY_REQUEST", "ADAPTER_START_PAIRING_COMMAND",
   "ADAPTER_CANCEL_PAIRING_COMMAND", "ADAPTER_UNLOAD_REQUEST",
   "ADAPTER_REMOVE_DEVICE_REQUEST", "ADAPTER_CANCEL_REMOVE_DEVICE_COMMAND",
   "DEVICE_SET_PROPERTY_COMMAND", "DEVICE_REQUEST_ACTION_REQUEST",
   "DEVICE_REMOVE_ACTION_REQUEST", "DEVICE_SET_PIN_REQUEST",
   "DEVICE_SET_CREDENTIALS_REQUEST"}

\* msg['data'][f] can be evaluated: msg is the decoded object, it has a
\* data key and data has key f.  Otherwise the subscript raises TypeError
\* (msg still bytes) or KeyError.
HasS(m, f) == m.json /\ m.hasData /\ m[f] # "-"
HasN(m, f) == m.json /\ m.hasData /\ m[f] # Absent

\* ------------------------------------------------------- the recv thread
BranchNoDataCheck(m) ==
  LET mt == m.messageType
  IN  IF ~m.valid THEN "bad_json"
      ELSE IF m.scalar THEN "TypeError_messageType"
      ELSE IF mt = "-" THEN "invalid"
      ELSE IF mt = "PLUGIN_UNLOAD_REQUEST" THEN "unload_plugin"
      ELSE IF mt = "API_HANDLER_UNLOAD_REQUEST" THEN
             IF m.packageName = "-" THEN "KeyError_packageName"
             ELSE IF m.packageName \notin api_handlers
                  THEN "unknown_handler"
             ELSE "api_unload"
      ELSE IF mt = "API_HANDLER_API_REQUEST" THEN
             IF m.packageName = "-" THEN "KeyError_packageName"
             ELSE IF m.packageName \notin api_handlers
                  THEN "unknown_handler"
             ELSE "api_request"
      ELSE IF m.notifierId # "-" THEN
             IF m.notifierId \notin notifiers THEN "unknown_notifier"
             ELSE IF mt = "NOTIFIER_UNLOAD_REQUEST" THEN "notifier_unload"
             ELSE IF mt = "OUTLET_NOTIFY_REQUEST" THEN "outlet_notify"
             ELSE "notifier_other"
      ELSE IF m.adapterId = "-" THEN "no_adapter_id"
      ELSE IF m.adapterId \notin adapters THEN "unknown_adapter"
      ELSE IF mt = "ADAPTER_START_PAIRING_COMMAND" THEN
             IF m.timeout = "-" THEN "KeyError_timeout"
             ELSE "start_pairing"
      ELSE IF mt = "ADAPTER_CANCEL_PAIRING_COMMAND" THEN "cancel_pairing"
      ELSE IF mt = "ADAPTER_UNLOAD_REQUEST" THEN "adapter_unload"
      ELSE IF m.deviceId = "-" THEN "no_device_id"
      ELSE IF mt = "ADAPTER_REMOVE_DEVICE_REQUEST" THEN "remove_thing"
      ELSE IF mt = "ADAPTER_CANCEL_REMOVE_DEVICE_COMMAND"
           THEN "cancel_remove_thing"
      ELSE IF mt = "DEVICE_SET_PROPERTY_COMMAND" THEN "set_prop_fn"
      ELSE IF mt = "DEVICE_REQUEST_ACTION_REQUEST" THEN "request_action_fn"
      ELSE IF mt = "DEVICE_REMOVE_ACTION_REQUEST" THEN "remove_action_fn"
      ELSE IF mt = "DEVICE_SET_PIN_REQUEST" THEN "set_pin_fn"
      ELSE IF mt = "DEVICE_SET_CREDENTIALS_REQUEST"
           THEN "set_credentials_fn"
      ELSE "unhandled"

\* Branch with the data check ahead of the unload-plugin check.
BranchDataFirst(m) ==
  LET mt == m.messageType
  IN  IF ~m.valid THEN "bad_json"
      ELSE IF m.scalar THEN "TypeError_messageType"
      ELSE IF mt = "-" THEN "invalid"
      ELSE IF ~m.hasData THEN "no_data"
      ELSE IF mt = "PLUGIN_UNLOAD_REQUEST" THEN "unload_plugin"
      ELSE IF mt = "API_HANDLER_UNLOAD_REQUEST" THEN
             IF m.packageName = "-" THEN "KeyError_packageName"
             ELSE IF m.packageName \notin api_handlers
                  THEN "unknown_handler"
             ELSE "api_unload"
      ELSE IF mt = "API_HANDLER_API_REQUEST" THEN
             IF m.packageName = "-" THEN "KeyError_packageName"
             ELSE IF m.packageName \notin api_handlers
                  THEN "unknown_handler"
             ELSE "api_request"
      ELSE IF m.notifierId # "-" THEN
             IF m.notifierId \notin notifiers THEN "unknown_notifier"
             ELSE IF mt = "NOTIFIER_UNLOAD_REQUEST" THEN "notifier_unload"
             ELSE IF mt = "OUTLET_NOTIFY_REQUEST" THEN "outlet_notify"
             ELSE "notifier_other"
      ELSE IF m.adapterId = "-" THEN "no_adapter_id"
      ELSE IF m.adapterId \notin adapters THEN "unknown_adapter"
      ELSE IF mt = "ADAPTER_START_PAIRING_COMMAND" THEN
             IF m.timeout = "-" THEN "KeyError_timeout"
             ELSE "start_pairing"
      ELSE IF mt = "ADAPTER_CANCEL_PAIRING_COMMAND" THEN "cancel_pairing"
      ELSE IF mt = "ADAPTER_UNLOAD_REQUEST" THEN "adapter_unload"
      ELSE IF m.deviceId = "-" THEN "no_device_id"
      ELSE IF mt = "ADAPTER_REMOVE_DEVICE_REQUEST" THEN "remove_thing"
      ELSE IF mt = "ADAPTER_CANCEL_REMOVE_DEVICE_COMMAND"
           THEN "cancel_remove_thing"
      ELSE IF mt = "DEVICE_SET_PROPERTY_COMMAND" THEN "set_prop_fn"
      ELSE IF mt = "DEVICE_REQUEST_ACTION_REQUEST" THEN "request_action_fn"
      ELSE IF mt = "DEVICE_REMOVE_ACTION_REQUEST" THEN "remove_action_fn"
      ELSE IF mt = "DEVICE_SET_PIN_REQUEST" THEN "set_pin_fn"
      ELSE IF mt = "DEVICE_SET_CREDENTIALS_REQUEST"
           THEN "set_credentials_fn"
      ELSE "unhandled"

\* Branch without the `continue` that ends the notifier block: a message
\* with a known notifierId and another sub-type goes on to the adapter
\* checks.
BranchNotifierFallsThrough(m) ==
  LET mt == m.messageType
  IN  IF ~m.valid THEN "bad_json"
      ELSE IF m.scalar THEN "TypeError_messageType"
      ELSE IF mt = "-" THEN "invalid"
      ELSE IF mt = "PLUGIN_UNLOAD_REQUEST" THEN "unload_plugin"
      ELSE IF ~m.hasData THEN "no_data"
      ELSE IF mt = "API_HANDLER_UNLOAD_REQUEST" THEN
             IF m.packageName = "-" THEN "KeyError_packageName"
             ELSE IF m.packageName \notin api_handlers
                  THEN "unknown_handler"
             ELSE "api_unload"
      ELSE IF mt = "API_HANDLER_API_REQUEST" THEN
             IF m.packageName = "-" THEN "KeyError_packageName"
             ELSE IF m.packageName \notin api_handlers
                  THEN "unknown_handler"
             ELSE "api_request"
      ELSE IF m.notifierId # "-" /\ m.notifierId \notin notifiers
           THEN "unknown_notifier"
      ELSE IF m.notifierId # "-" /\ mt = "NOTIFIER_UNLOAD_REQUEST"
           THEN "notifier_unload"
      ELSE IF m.notifierId # "-" /\ mt = "OUTLET_NOTIFY_REQUEST"
           THEN "outlet_notify"
      ELSE IF m.adapterId = "-" THEN "no_adapter_id"
      ELSE IF m.adapterId \notin adapters THEN "unknown_adapter"
      ELSE IF mt = "ADAPTER_START_PAIRING_COMMAND" THEN
             IF m.timeout = "-" THEN "KeyError_timeout"
             ELSE "start_pairing"
      ELSE IF mt = "ADAPTER_CANCEL_PAIRING_COMMAND" THEN "cancel_pairing"
      ELSE IF mt = "ADAPTER_UNLOAD_REQUEST" THEN "adapter_unload"
      ELSE IF m.deviceId = "-" THEN "no_device_id"
      ELSE IF mt = "ADAPTER_REMOVE_DEVICE_REQUEST" THEN "remove_thing"
      ELSE IF mt = "ADAPTER_CANCEL_REMOVE_DEVICE_COMMAND"
           THEN "cancel_remove_thing"
      ELSE IF mt = "DEVICE_SET_PROPERTY_COMMAND" THEN "set_prop_fn"
      ELSE IF mt = "DEVICE_REQUEST_ACTION_REQUEST" THEN "request_action_fn"
      ELSE IF mt = "DEVICE_REMOVE_ACTION_REQUEST" THEN "remove_action_fn"
      ELSE IF mt = "DEVICE_SET_PIN_REQUEST" THEN "set_pin_fn"
      ELSE IF mt = "DEVICE_SET_CREDENTIALS_REQUEST"
           THEN "set_credentials_fn"
      ELSE "unhandled"

\* The branch of recv's if-chain that handles the decoded message m, in the
\* order of the code.
Branch(m) ==
  LET mt == m.messageType
  IN  IF ~m.valid THEN "bad_json"
      ELSE IF m.scalar THEN "TypeError_messageType"
      ELSE IF mt = "-" THEN "invalid"
      ELSE IF mt = "PLUGIN_UNLOAD_REQUEST" THEN "unload_plugin"
      ELSE IF ~m.hasData THEN "no_data"
      ELSE IF mt = "API_HANDLER_UNLOAD_REQUEST" THEN
             IF m.packageName = "-" THEN "KeyError_packageName"
             ELSE IF m.packageName \notin api_handlers
                  THEN "unknown_handler"
             ELSE "api_unload"
      ELSE IF mt = "API_HANDLER_API_REQUEST" THEN
             IF m.packageName = "-" THEN "KeyError_packageName"
             ELSE IF m.packageName \notin api_handlers
                  THEN "unknown_handler"
             ELSE "api_request"
      ELSE IF m.notifierId # "-" THEN
             IF m.notifierId \notin notifiers THEN "unknown_notifier"
             ELSE IF mt = "NOTIFIER_UNLOAD_REQUEST" THEN "notifier_unload"
             ELSE IF mt = "OUTLET_NOTIFY_REQUEST" THEN "outlet_notify"
             ELSE "notifier_other"
      ELSE IF m.adapterId = "-" THEN "no_adapter_id"
      ELSE IF m.adapterId \notin adapters THEN "unknown_adapter"
      ELSE IF mt = "ADAPTER_START_PAIRING_COMMAND" THEN
             IF m.timeout = "-" THEN "KeyError_timeout"
             ELSE "start_pairing"
      ELSE IF mt = "ADAPTER_CANCEL_PAIRING_COMMAND" THEN "cancel_pairing"
      ELSE IF mt = "ADAPTER_UNLOAD_REQUEST" THEN "adapter_unload"
      ELSE IF m.deviceId = "-" THEN "no_device_id"
      ELSE IF mt = "ADAPTER_REMOVE_DEVICE_REQUEST" THEN "remove_thing"
      ELSE IF mt = "ADAPTER_CANCEL_REMOVE_DEVICE_COMMAND"
           THEN "cancel_remove_thing"
      ELSE IF mt = "DEVICE_SET_PROPERTY_COMMAND" THEN "set_prop_fn"
      ELSE IF mt = "DEVICE_REQUEST_ACTION_REQUEST" THEN "request_action_fn"
      ELSE IF mt = "DEVICE_REMOVE_ACTION_REQUEST" THEN "remove_action_fn"
      ELSE IF mt = "DEVICE_SET_PIN_REQUEST" THEN "set_pin_fn"
      ELSE IF mt = "DEVICE_SET_CREDENTIALS_REQUEST"
           THEN "set_credentials_fn"
      ELSE "unhandled"

\* Branches that print (or do nothing) and go on to the next read.
DropBranches ==
  {"bad_json", "invalid", "no_data", "unknown_handler", "unknown_notifier",
   "notifier_other", "no_adapter_id", "unknown_adapter", "no_device_id",
   "unhandled"}

\* Branches in which recv itself raises: a subscript of msg['data'] raises
\* KeyError, or `'messageType' not in msg` raises TypeError because msg is
\* not a container.
RaiseBranches ==
  {"KeyError_packageName", "KeyError_timeout", "TypeError_messageType"}

\* Branches that remove an entry from a registry and start unload_fn.
UnloadBranches == {"api_unload", "notifier_unload", "adapter_unload"}

\* Branches that start a worker and change nothing else.
DispatchBranches ==
  {"api_request", "outlet_notify", "start_pairing", "cancel_pairing",
   "remove_thing", "cancel_remove_thing", "set_prop_fn",
   "request_action_fn", "remove_action_fn", "set_pin_fn",
   "set_credentials_fn"}

\* Branches taken after `device_id = msg['data']['deviceId']`.
DeviceBranches ==
  {"remove_thing", "cancel_remove_thing", "set_prop_fn",
   "request_action_fn", "remove_action_fn", "set_pin_fn",
   "set_credentials_fn", "unhandled"}

\* Branches taken after `adapter_id = msg['data']['adapterId']`.
AdapterBranches ==
  DeviceBranches \cup
  {"unknown_adapter", "KeyError_timeout", "start_pairing", "cancel_pairing",
   "adapter_unload", "no_device_id"}

\* The assignments recv makes to its locals on the way to branch b.
Assign(b, m) ==
  /\ msg' = IF m.valid THEN [m EXCEPT !.json = TRUE] ELSE msg
  /\ package_name' =
       IF b \in {"unknown_handler", "api_unload", "api_request"}
       THEN m.packageName ELSE package_name
  /\ notifier_id' =
       IF b \in {"unknown_notifier", "notifier_unload", "outlet_notify",
                 "notifier_other"}
       THEN m.notifierId ELSE notifier_id
  /\ adapter_id' = IF b \in AdapterBranches THEN m.adapterId ELSE adapter_id
  /\ device_id' = IF b \in DeviceBranches THEN m.deviceId ELSE device_id

\* A thread as make_thread starts it.  own is the message whose handling
\* started it (history); arg is the positional argument bound at the start
\* (the timeout, the device id, or the id of the entity passed in args).
\* before is history: the cached value at the moment the thread stored its
\* own.
Worker(fn, m, arg) ==
  [fn |-> fn, pc |-> "start", own |-> [m EXCEPT !.json = TRUE], arg |-> arg,
   dev |-> "-", name |-> "-", v |-> Absent, input |-> Absent,
   old |-> Absent, before |-> Absent, aid |-> "-", mid |-> "-",
   res |-> "-"]

\* plugin_socket.recv() returns the bytes of message m.
Read(m) ==
  /\ loop = "reading"
  /\ running
  /\ sockets = "open"
  /\ nread < MaxMsgs
  /\ msg' = [m EXCEPT !.json = FALSE]
  /\ nread' = nread + 1
  /\ loop' = "decoding"
  /\ UNCHANGED <<objVars, propVars, regVars, running, sockets, workers, log>>
  /\ UNCHANGED <<device_id, adapter_id, notifier_id, package_name>>

\* plugin_socket.recv() raises NNError: recv prints and breaks.
ReadError ==
  /\ loop = "reading"
  /\ loop' = "break_error"
  /\ UNCHANGED <<objVars, propVars, cellVars, regVars, running, sockets, nread,
                 workers, log>>

\* plugin_socket.recv() returns nothing: `if not msg: break`.
ReadEmpty ==
  /\ loop = "reading"
  /\ sockets = "open"
  /\ msg' = NoMsg
  /\ loop' = "break_empty"
  /\ UNCHANGED <<objVars, propVars, regVars, running, sockets, nread, workers, log>>
  /\ UNCHANGED <<device_id, adapter_id, notifier_id, package_name>>

\* The message is logged and skipped; recv continues with the next read.
HandleDrop ==
  /\ loop = "decoding"
  /\ Branch(msg) \in DropBranches
  /\ Assign(Branch(msg), msg)
  /\ loop' = "reading"
  /\ UNCHANGED <<objVars, propVars, regVars, running, sockets, nread, workers, log>>

\* An expression of recv itself raises KeyError or TypeError: the exception
\* leaves recv and the thread ends.
HandleRaise ==
  /\ loop = "decoding"
  /\ Branch(msg) \in RaiseBranches
  /\ Assign(Branch(msg), msg)
  /\ loop' = "raised"
  /\ UNCHANGED <<objVars, propVars, regVars, running, sockets, nread, workers, log>>

HandleUnloadPluginNoAck ==
  /\ loop = "decoding"
  /\ Branch(msg) = "unload_plugin"
  /\ Assign("unload_plugin", msg)
  /\ workers' = Append(workers, Worker("close_fn", msg, "-"))
  /\ loop' = "break_unload"
  /\ UNCHANGED <<objVars, propVars, regVars, running, sockets, nread, log>>

\* PLUGIN_UNLOAD_REQUEST: send the response, start close_fn, break.
HandleUnloadPlugin ==
  /\ loop = "decoding"
  /\ Branch(msg) = "unload_plugin"
  /\ Assign("unload_plugin", msg)
  /\ log' = [log EXCEPT ![0] =
                send(@, sockets, Entry("send", "PLUGIN_UNLOAD_RESPONSE", 0))]
  /\ workers' = Append(workers, Worker("close_fn", msg, "-"))
  /\ loop' = "break_unload"
  /\ UNCHANGED <<objVars, propVars, regVars, running, sockets, nread>>

\* HandleUnload ending the loop as the unload-plugin branch does.
HandleUnloadBreaks ==
  /\ loop = "decoding"
  /\ Branch(msg) \in UnloadBranches
  /\ LET b == Branch(msg)
         id == IF b = "api_unload" THEN msg.packageName
               ELSE IF b = "notifier_unload" THEN msg.notifierId
               ELSE msg.adapterId
     IN  /\ Assign(b, msg)
         /\ workers' = Append(workers, Worker(b, msg, id))
         /\ api_handlers' = IF b = "api_unload" THEN api_handlers \ {id}
                            ELSE api_handlers
         /\ notifiers' = IF b = "notifier_unload" THEN notifiers \ {id}
                         ELSE notifiers
         /\ adapters' = IF b = "adapter_unload" THEN adapters \ {id}
                        ELSE adapters
  /\ loop' = "break_unload"
  /\ UNCHANGED <<objVars, propVars, devices, running, sockets, nread, log>>

\* HandleUnload without `del self.adapters[adapter.id]`.
HandleUnloadKeepsAdapter ==
  /\ loop = "decoding"
  /\ Branch(msg) \in UnloadBranches
  /\ LET b == Branch(msg)
         id == IF b = "api_unload" THEN msg.packageName
               ELSE IF b = "notifier_unload" THEN msg.notifierId
               ELSE msg.adapterId
     IN  /\ Assign(b, msg)
         /\ workers' = Append(workers, Worker(b, msg, id))
         /\ api_handlers' = IF b = "api_unload" THEN api_handlers \ {id}
                            ELSE api_handlers
         /\ notifiers' = IF b = "notifier_unload" THEN notifiers \ {id}
                         ELSE notifiers
         /\ adapters' = adapters
  /\ loop' = "reading"
  /\ UNCHANGED <<objVars, propVars, devices, running, sockets, nread, log>>

\* API_HANDLER_UNLOAD_REQUEST, NOTIFIER_UNLOAD_REQUEST and
\* ADAPTER_UNLOAD_REQUEST: start unload_fn with the entity and delete the
\* entity from its registry.
HandleUnload ==
  /\ loop = "decoding"
  /\ Branch(msg) \in UnloadBranches
  /\ LET b == Branch(msg)
         id == IF b = "api_unload" THEN msg.packageName
               ELSE IF b = "notifier_unload" THEN msg.notifierId
               ELSE msg.adapterId
     IN  /\ Assign(b, msg)
         /\ workers' = Append(workers, Worker(b, msg, id))
         /\ api_handlers' = IF b = "api_unload" THEN api_handlers \ {id}
                            ELSE api_handlers
         /\ notifiers' = IF b = "notifier_unload" THEN notifiers \ {id}
                         ELSE notifiers
         /\ adapters' = IF b = "adapter_unload" THEN adapters \ {id}
                        ELSE adapters
  /\ loop' = "reading"
  /\ UNCHANGED <<objVars, propVars, devices, running, sockets, nread, log>>

\* HandleDispatch with the adapter's pairing hooks called by the loop itself
\* instead of through make_thread.
HandleDispatchInline ==
  /\ loop = "decoding"
  /\ Branch(msg) \in DispatchBranches
  /\ LET b == Branch(msg)
         arg == IF b = "start_pairing" THEN msg.timeout
                ELSE IF b \in {"remove_thing", "cancel_remove_thing"}
                     THEN msg.deviceId
                ELSE IF b = "api_request" THEN msg.packageName
                ELSE IF b = "outlet_notify" THEN msg.notifierId
                ELSE msg.adapterId
     IN  /\ Assign(b, msg)
         /\ IF b \in {"start_pairing", "cancel_pairing"}
            THEN /\ log' = [log EXCEPT ![0] =
                             Append(@, [Entry("hook", b, 0)
                                          EXCEPT !.ad = "a1"])]
                 /\ workers' = workers
            ELSE /\ workers' = Append(workers, Worker(b, msg, arg))
                 /\ log' = log
  /\ loop' = "reading"
  /\ UNCHANGED <<objVars, propVars, regVars, running, sockets, nread>>

\* Every other recognized request: start the worker, continue.
HandleDispatch ==
  /\ loop = "decoding"
  /\ Branch(msg) \in DispatchBranches
  /\ LET b == Branch(msg)
         arg == IF b = "start_pairing" THEN msg.timeout
                ELSE IF b \in {"remove_thing", "cancel_remove_thing"}
                     THEN msg.deviceId
                ELSE IF b = "api_request" THEN msg.packageName
                ELSE IF b = "outlet_notify" THEN msg.notifierId
                ELSE msg.adapterId
     IN  /\ Assign(b, msg)
         /\ workers' = Append(workers, Worker(b, msg, arg))
  /\ loop' = "reading"
  /\ UNCHANGED <<objVars, propVars, regVars, running, sockets, nread, log>>

\* ------------------------------------------------------ worker threads
Me(i) == workers[i]

At(i, fn, pc) == i \in DOMAIN workers /\ Me(i).fn = fn /\ Me(i).pc = pc

\* What a worker step leaves alone unless it says otherwise.
WorkerFrame ==
  UNCHANGED <<action, now, ipc, description, fire_and_forget, bypassed, lastCall,
              cellVars, adapters, notifiers, api_handlers, loop, nread>>

\* A worker step that replaces the worker's record by w and the log[i] by lg.
Step(i, w, lg) ==
  /\ workers' = [workers EXCEPT ![i] = w]
  /\ log' = [log EXCEPT ![i] = lg]
  /\ UNCHANGED <<value, devices, membership, running, sockets>>
  /\ WorkerFrame

\* The thread's target returned; its locals are gone (v is kept as history:
\* the candidate the thread passed to set_value).
Done(i) ==
  [Worker(Me(i).fn, Me(i).own, Me(i).arg)
     EXCEPT !.pc = "done", !.v = Me(i).v, !.before = Me(i).before]

\* An exception that no handler of the worker catches ends the thread.
Crashed(i, exc) ==
  [Worker(Me(i).fn, Me(i).own, Me(i).arg)
     EXCEPT !.pc = "crashed", !.res = exc]

\* Adapter.get_device(id) on adapter a1: the id when held, "-" for None.
get_device(id) == IF id \in devices THEN id ELSE "-"

\* --- close_fn: time.sleep(.5); proxy.close()
CloseSleep(i) ==
  /\ At(i, "close_fn", "start")
  /\ Step(i, [Me(i) EXCEPT !.pc = "close"], log[i])

\* close without `self.running = False`.
CloseRunningKeepsFlag(i) ==
  /\ At(i, "close_fn", "close")
  /\ running' = running
  /\ workers' = [workers EXCEPT ![i] = [Me(i) EXCEPT !.pc = "sockets"]]
  /\ UNCHANGED <<value, devices, membership, sockets, log>>
  /\ WorkerFrame

\* AddonManagerProxy.close: self.running = False
CloseRunning(i) ==
  /\ At(i, "close_fn", "close")
  /\ running' = FALSE
  /\ workers' = [workers EXCEPT ![i] = [Me(i) EXCEPT !.pc = "sockets"]]
  /\ UNCHANGED <<value, devices, membership, sockets, log>>
  /\ WorkerFrame

\* AddonManagerProxy.close: the two sockets are closed
CloseSockets(i) ==
  /\ At(i, "close_fn", "sockets")
  /\ sockets' = "closed"
  /\ workers' = [workers EXCEPT ![i] = Done(i)]
  /\ UNCHANGED <<value, devices, membership, running, log>>
  /\ WorkerFrame

close_fn(i) == CloseSleep(i) \/ CloseRunning(i) \/ CloseSockets(i)

\* --- unload_fn (API handler, notifier, adapter): the unload hook, then
\* the response carrying the id of the entity bound in args.
UnloadHook(i) ==
  /\ i \in DOMAIN workers
  /\ Me(i).fn \in UnloadBranches
  /\ Me(i).pc = "start"
  /\ Step(i, [Me(i) EXCEPT !.pc = "respond"],
          Append(log[i], [Entry("hook", "unload", i) EXCEPT !.ad = Me(i).arg]))

UnloadRespond(i) ==
  /\ i \in DOMAIN workers
  /\ Me(i).fn \in UnloadBranches
  /\ Me(i).pc = "respond"
  /\ LET mt == IF Me(i).fn = "api_unload" THEN "API_HANDLER_UNLOAD_RESPONSE"
               ELSE IF Me(i).fn = "notifier_unload"
                    THEN "NOTIFIER_UNLOAD_RESPONSE"
               ELSE "ADAPTER_UNLOAD_RESPONSE"
     IN  Step(i, Done(i),
              send(log[i], sockets,
                   [Entry("send", mt, i) EXCEPT !.ad = Me(i).arg]))

unload_fn(i) == UnloadHook(i) \/ UnloadRespond(i)

\* Adapter.cancel_remove_thing(device_id) putting the device back into
\* self.devices.
AdapterHookReadds(i) ==
  /\ i \in DOMAIN workers
  /\ Me(i).fn \in {"start_pairing", "cancel_pairing", "cancel_remove_thing"}
  /\ Me(i).pc = "start"
  /\ workers' = [workers EXCEPT ![i] = Done(i)]
  /\ log' = [log EXCEPT ![i] =
               Append(@, [Entry("hook", Me(i).fn, i) EXCEPT !.ad = "a1"])]
  /\ devices' = IF Me(i).fn = "cancel_remove_thing" /\ Me(i).arg \in DeviceIds
                THEN devices \cup {Me(i).arg}
                ELSE devices
  /\ UNCHANGED <<value, membership, running, sockets>>
  /\ WorkerFrame

\* --- Adapter.start_pairing(timeout), Adapter.cancel_pairing() and
\* Adapter.cancel_remove_thing(device_id) run as the thread's target.
AdapterHook(i) ==
  /\ i \in DOMAIN workers
  /\ Me(i).fn \in {"start_pairing", "cancel_pairing", "cancel_remove_thing"}
  /\ Me(i).pc = "start"
  /\ Step(i, Done(i),
          Append(log[i], [Entry("hook", Me(i).fn, i) EXCEPT !.ad = "a1"]))

\* --- Adapter.remove_thing(device_id): handle_device_removed if held.
RemoveThing(i) ==
  /\ At(i, "remove_thing", "start")
  /\ LET device == get_device(Me(i).arg)
     IN  /\ devices' = devices \ {device}
         /\ membership' = IF device = "-" THEN membership
                          ELSE [membership EXCEPT ![device] = "removed"]
         /\ log' = IF device = "-" THEN log
                   ELSE [log EXCEPT ![i] =
                           send(@, sockets,
                                [Entry("send",
                                       "ADAPTER_REMOVE_DEVICE_RESPONSE", i)
                                   EXCEPT !.ad = "a1", !.dev = device])]
  /\ workers' = [workers EXCEPT ![i] = Done(i)]
  /\ UNCHANGED <<value, running, sockets>>
  /\ WorkerFrame

\* --- set_prop_fn
\* dev = adapter.get_device(device_id)
SetPropGetDevice(i) ==
  /\ At(i, "set_prop_fn", "start")
  /\ LET dev == get_device(device_id)
     IN  Step(i, IF dev = "-" THEN Done(i)
                 ELSE [Me(i) EXCEPT !.pc = "find", !.dev = dev], log[i])

\* prop = dev.find_property(msg['data']['propertyName'])
SetPropFind(i) ==
  /\ At(i, "set_prop_fn", "find")
  /\ Step(i, IF ~HasS(msg, "propertyName") THEN Crashed(i, "KeyError")
             ELSE IF msg.propertyName # "p1" THEN Done(i)
             ELSE [Me(i) EXCEPT !.pc = "check", !.name = msg.propertyName],
          log[i])

\* prop.set_value(msg['data']['propertyValue']): the argument is read and
\* the checks run; PropertyError takes the worker to its except clause.
SetPropCheck(i) ==
  /\ At(i, "set_prop_fn", "check")
  /\ Step(i, IF ~HasN(msg, "propertyValue") THEN Crashed(i, "KeyError")
             ELSE LET err == Check(description, msg.propertyValue)
                  IN  [Me(i) EXCEPT !.v = msg.propertyValue, !.res = err,
                         !.pc = IF err = "ok" THEN "old" ELSE "except"],
          log[i])

\* set_cached_value_and_notify: old_value = self.value
SetPropOld(i) ==
  /\ At(i, "set_prop_fn", "old")
  /\ Step(i, [Me(i) EXCEPT !.old = value, !.pc = "store"], log[i])

\* set_cached_value_and_notify: self.set_cached_value(value)
SetPropStore(i) ==
  /\ At(i, "set_prop_fn", "store")
  /\ value' = set_cached_value(description, Me(i).v)
  /\ workers' = [workers EXCEPT ![i] = [Me(i) EXCEPT !.pc = "compare",
                                                     !.before = value]]
  /\ UNCHANGED <<devices, membership, running, sockets, log>>
  /\ WorkerFrame

\* set_cached_value_and_notify: has_changed = old_value != self.value
SetPropCompare(i) ==
  /\ At(i, "set_prop_fn", "compare")
  /\ Step(i, [Me(i) EXCEPT !.pc = IF Me(i).old # value THEN "notify"
                                  ELSE "forget"], log[i])

\* set_cached_value_and_notify: self.device.notify_property_changed(self)
SetPropNotify(i) ==
  /\ At(i, "set_prop_fn", "notify")
  /\ Step(i, [Me(i) EXCEPT !.pc = "forget"],
          send(log[i], sockets, PropertyChanged(i, value, "property")))

\* if prop.fire_and_forget: proxy.send_property_changed_notification(prop)
SetPropForget(i) ==
  /\ At(i, "set_prop_fn", "forget")
  /\ Step(i, Done(i),
          IF fire_and_forget
          THEN send(log[i], sockets, PropertyChanged(i, value, "worker"))
          ELSE log[i])

\* except PropertyError: proxy.send_property_changed_notification(prop)
SetPropExcept(i) ==
  /\ At(i, "set_prop_fn", "except")
  /\ Step(i, Done(i), send(log[i], sockets, PropertyChanged(i, value, "worker")))

set_prop_fn(i) ==
  \/ SetPropGetDevice(i)
  \/ SetPropFind(i)
  \/ SetPropCheck(i)
  \/ SetPropOld(i)
  \/ SetPropStore(i)
  \/ SetPropCompare(i)
  \/ SetPropNotify(i)
  \/ SetPropForget(i)
  \/ SetPropExcept(i)

\* --- Device d1: its declared actions and the outlets of notifier n1
\* Device.actions of d1: act1 declares an input schema, act2 declares none.
DeclaredActions == {"act1", "act2"}

\* jsonschema.validate(action_input, metadata['input']) for act1: the
\* schema accepts the input 1 and rejects 0 and None.
ValidInput(name, input) == name # "act1" \/ input = 1

\* Notifier.outlets of n1
Outlets == {"o1"}

\* The outcomes of a hook that add-on code overrides.
HookResults(exc) == {"ok", exc}

\* --- request_action_fn
\* action_id = msg['data']['actionId']; action_name = msg['data']['actionName']
ReqActionStart(i) ==
  /\ At(i, "request_action_fn", "start")
  /\ Step(i, IF ~HasS(msg, "actionId") \/ ~HasS(msg, "actionName")
             THEN Crashed(i, "KeyError")
             ELSE [Me(i) EXCEPT !.aid = msg.actionId,
                                !.name = msg.actionName, !.pc = "request"],
          log[i])

\* dev = adapter.get_device(device_id); if dev: dev.request_action(...).
\* Device.request_action returns without an Action when the name is not
\* declared or the input fails validation; otherwise it constructs the
\* Action and calls perform_action, which may raise ActionError.
\* The hook's entry keeps how the hook ended in its via field.
ReqActionRequest(i) ==
  /\ At(i, "request_action_fn", "request")
  /\ LET dev == get_device(device_id)
     IN  IF dev = "-"
         THEN Step(i, [Me(i) EXCEPT !.pc = "respond", !.res = "ok"], log[i])
         ELSE IF ~msg.json \/ ~msg.hasData
         THEN Step(i, Crashed(i, "KeyError"), log[i])
         ELSE IF Me(i).name \notin DeclaredActions
                 \/ ~ValidInput(Me(i).name, msg.input)
         THEN Step(i, [Me(i) EXCEPT !.pc = "respond", !.res = "ok",
                                    !.dev = dev, !.input = msg.input], log[i])
         ELSE \E r \in HookResults("ActionError") :
                Step(i, [Me(i) EXCEPT !.pc = "respond", !.res = r,
                                      !.dev = dev, !.input = msg.input],
                     log[i] \o
                     << [Entry("new", "Action", i)
                           EXCEPT !.dev = dev, !.name = Me(i).name,
                                  !.aid = Me(i).aid, !.val = msg.input,
                                  !.ok = "created"],
                        [Entry("hook", "perform_action", i)
                           EXCEPT !.dev = dev, !.name = Me(i).name,
                                  !.aid = Me(i).aid, !.val = msg.input,
                                  !.via = r] >>)

\* proxy.send(DEVICE_REQUEST_ACTION_RESPONSE, ...): success True, or False
\* in the except ActionError clause.
ReqActionRespond(i) ==
  /\ At(i, "request_action_fn", "respond")
  /\ Step(i, Done(i),
          send(log[i], sockets,
               [Entry("send", "DEVICE_REQUEST_ACTION_RESPONSE", i)
                  EXCEPT !.ad = adapter_id, !.dev = device_id,
                         !.name = Me(i).name, !.aid = Me(i).aid,
                         !.ok = IF Me(i).res = "ok" THEN "true"
                                ELSE "false"]))

request_action_fn(i) ==
  ReqActionStart(i) \/ ReqActionRequest(i) \/ ReqActionRespond(i)

\* --- remove_action_fn
RemActionStart(i) ==
  /\ At(i, "remove_action_fn", "start")
  /\ Step(i, IF ~HasS(msg, "actionId") \/ ~HasS(msg, "actionName")
                \/ ~HasS(msg, "messageId")
             THEN Crashed(i, "KeyError")
             ELSE [Me(i) EXCEPT !.aid = msg.actionId,
                                !.name = msg.actionName,
                                !.mid = msg.messageId, !.pc = "remove"],
          log[i])

\* dev = adapter.get_device(device_id); if dev: dev.remove_action(...).
\* Device.remove_action calls cancel_action when the name is declared.
RemActionRemove(i) ==
  /\ At(i, "remove_action_fn", "remove")
  /\ LET dev == get_device(device_id)
     IN  IF dev = "-"
         THEN Step(i, [Me(i) EXCEPT !.pc = "respond", !.res = "ok"], log[i])
         ELSE IF Me(i).name \notin DeclaredActions
         THEN Step(i, [Me(i) EXCEPT !.pc = "respond", !.res = "ok",
                                    !.dev = dev], log[i])
         ELSE \E r \in HookResults("ActionError") :
                Step(i, [Me(i) EXCEPT !.pc = "respond", !.res = r,
                                      !.dev = dev],
                     Append(log[i], [Entry("hook", "cancel_action", i)
                                    EXCEPT !.dev = dev, !.name = Me(i).name,
                                           !.aid = Me(i).aid, !.via = r]))

RemActionRespond(i) ==
  /\ At(i, "remove_action_fn", "respond")
  /\ Step(i, Done(i),
          send(log[i], sockets,
               [Entry("send", "DEVICE_REMOVE_ACTION_RESPONSE", i)
                  EXCEPT !.ad = adapter_id, !.dev = device_id,
                         !.name = Me(i).name, !.aid = Me(i).aid,
                         !.mid = Me(i).mid,
                         !.ok = IF Me(i).res = "ok" THEN "true"
                                ELSE "false"]))

remove_action_fn(i) ==
  RemActionStart(i) \/ RemActionRemove(i) \/ RemActionRespond(i)

\* --- set_pin_fn and set_credentials_fn
\* message_id = msg['data']['messageId']
SetPinStart(i) ==
  /\ i \in DOMAIN workers
  /\ Me(i).fn \in {"set_pin_fn", "set_credentials_fn"}
  /\ Me(i).pc = "start"
  /\ Step(i, IF ~HasS(msg, "messageId") THEN Crashed(i, "KeyError")
             ELSE [Me(i) EXCEPT !.mid = msg.messageId, !.pc = "set"], log[i])

\* adapter.set_pin(device_id, msg['data']['pin']) and
\* adapter.set_credentials(device_id, username, password): the adapter
\* raises SetPinError / SetCredentialsError when it does not hold the device.
SetPinSet(i) ==
  /\ i \in DOMAIN workers
  /\ Me(i).fn \in {"set_pin_fn", "set_credentials_fn"}
  /\ Me(i).pc = "set"
  /\ LET hook == IF Me(i).fn = "set_pin_fn" THEN "set_pin"
                 ELSE "set_credentials"
     IN  IF ~HasS(msg, "payload")
         THEN Step(i, Crashed(i, "KeyError"), log[i])
         ELSE IF get_device(device_id) = "-"
         THEN Step(i, [Me(i) EXCEPT !.pc = "rejected"], log[i])
         ELSE Step(i, [Me(i) EXCEPT !.pc = "resolved"],
                   Append(log[i], [Entry("hook", hook, i)
                                  EXCEPT !.ad = "a1", !.dev = device_id]))

\* dev = adapter.get_device(device_id); proxy.send(... dev.as_dict() ...):
\* as_dict on None raises AttributeError.
SetPinResolved(i) ==
  /\ i \in DOMAIN workers
  /\ Me(i).fn \in {"set_pin_fn", "set_credentials_fn"}
  /\ Me(i).pc = "resolved"
  /\ LET dev == get_device(device_id)
         mt == IF Me(i).fn = "set_pin_fn" THEN "DEVICE_SET_PIN_RESPONSE"
               ELSE "DEVICE_SET_CREDENTIALS_RESPONSE"
     IN  IF dev = "-" THEN Step(i, Crashed(i, "AttributeError"), log[i])
         ELSE Step(i, Done(i),
                   send(log[i], sockets,
                        [Entry("send", mt, i)
                           EXCEPT !.ad = Me(i).arg, !.dev = dev,
                                  !.val = value, !.mid = Me(i).mid,
                                  !.ok = "true", !.via = "device"]))

\* except SetPinError / SetCredentialsError: the response carries deviceId
SetPinRejected(i) ==
  /\ i \in DOMAIN workers
  /\ Me(i).fn \in {"set_pin_fn", "set_credentials_fn"}
  /\ Me(i).pc = "rejected"
  /\ LET mt == IF Me(i).fn = "set_pin_fn" THEN "DEVICE_SET_PIN_RESPONSE"
               ELSE "DEVICE_SET_CREDENTIALS_RESPONSE"
     IN  Step(i, Done(i),
              send(log[i], sockets,
                   [Entry("send", mt, i)
                      EXCEPT !.ad = Me(i).arg, !.dev = device_id,
                             !.mid = Me(i).mid, !.ok = "false",
                             !.via = "deviceId"]))

set_pin_fn(i) ==
  SetPinStart(i) \/ SetPinSet(i) \/ SetPinResolved(i) \/ SetPinRejected(i)

\* --- request_fn (API handler request)
\* message_id = msg['data']['messageId']
ApiStart(i) ==
  /\ At(i, "api_request", "start")
  /\ Step(i, IF ~HasS(msg, "messageId") THEN Crashed(i, "KeyError")
             ELSE [Me(i) EXCEPT !.mid = msg.messageId, !.pc = "handle"], log[i])

\* request = APIRequest(**msg['data']['request']);
\* response = handler.handle_request(request)
ApiHandle(i) ==
  /\ At(i, "api_request", "handle")
  /\ IF ~HasS(msg, "payload")
     THEN Step(i, Crashed(i, "KeyError"), log[i])
     ELSE \E r \in HookResults("APIHandlerError") :
            Step(i, [Me(i) EXCEPT !.pc = "respond", !.res = r],
                 Append(log[i], [Entry("hook", "handle_request", i)
                                EXCEPT !.ad = Me(i).arg]))

\* proxy.send(API_HANDLER_API_RESPONSE, ...): the handler's response, or
\* status 500 in the except APIHandlerError clause.
ApiRespond(i) ==
  /\ At(i, "api_request", "respond")
  /\ Step(i, Done(i),
          send(log[i], sockets,
               [Entry("send", "API_HANDLER_API_RESPONSE", i)
                  EXCEPT !.ad = package_name, !.mid = Me(i).mid,
                         !.ok = IF Me(i).res = "ok" THEN "true"
                                ELSE "false"]))

request_fn(i) == ApiStart(i) \/ ApiHandle(i) \/ ApiRespond(i)

\* --- notify_fn
\* outlet_id = msg['data']['outletId']; outlet = notifier.get_outlet(...);
\* message_id = msg['data']['messageId']
NotifyStart(i) ==
  /\ At(i, "outlet_notify", "start")
  /\ Step(i, IF ~HasS(msg, "outletId") THEN Crashed(i, "KeyError")
             ELSE IF msg.outletId \notin Outlets THEN Done(i)
             ELSE IF ~HasS(msg, "messageId") THEN Crashed(i, "KeyError")
             ELSE [Me(i) EXCEPT !.dev = msg.outletId, !.mid = msg.messageId,
                                !.pc = "notify"],
          log[i])

\* outlet.notify(msg['data']['title'], msg['data']['message'],
\*               msg['data']['level'])
NotifyNotify(i) ==
  /\ At(i, "outlet_notify", "notify")
  /\ IF ~HasS(msg, "payload")
     THEN Step(i, Crashed(i, "KeyError"), log[i])
     ELSE \E r \in HookResults("NotifyError") :
            Step(i, [Me(i) EXCEPT !.pc = "respond", !.res = r],
                 Append(log[i], [Entry("hook", "notify", i)
                                EXCEPT !.ad = Me(i).arg, !.dev = Me(i).dev]))

NotifyRespond(i) ==
  /\ At(i, "outlet_notify", "respond")
  /\ Step(i, Done(i),
          send(log[i], sockets,
               [Entry("send", "OUTLET_NOTIFY_RESPONSE", i)
                  EXCEPT !.ad = notifier_id, !.dev = Me(i).dev,
                         !.mid = Me(i).mid,
                         !.ok = IF Me(i).res = "ok" THEN "true"
                                ELSE "false"]))

notify_fn(i) == NotifyStart(i) \/ NotifyNotify(i) \/ NotifyRespond(i)

\* ------------------------------------------------------ specifications
\* The description of property p1 in the specifications of the proxy:
\* an integer with a minimum and a maximum.
RouterDescription ==
  [type |-> "integer", readOnly |-> "absent", minimum |-> 1,
   maximum |-> MaxVal - 1, multipleOf |-> Absent, enum |-> {}]

SetProperty(dev, name, v) ==
  [D("DEVICE_SET_PROPERTY_COMMAND")
     EXCEPT !.adapterId = "a1", !.deviceId = dev, !.propertyName = name,
            !.propertyValue = v]

RequestAction(dev, aid, name, input) ==
  [D("DEVICE_REQUEST_ACTION_REQUEST")
     EXCEPT !.adapterId = "a1", !.deviceId = dev, !.actionId = aid,
            !.actionName = name, !.input = input]

\* Device-scoped requests that carry a messageId and further keys.
DeviceRequest(mt, dev) ==
  [D(mt) EXCEPT !.adapterId = "a1", !.deviceId = dev, !.messageId = "m1",
                !.payload = "y"]

SetPropertyMsgs ==
  {SetProperty("d1", "p1", v) : v \in Values}
    \cup {SetProperty("d2", "p1", 1), SetProperty("d1", "p2", 1)}

RequestActionMsgs ==
  {RequestAction("d1", "x1", n, in) :
     n \in {"act1", "act2", "act9"}, in \in {Absent, 0, 1}}

\* Messages that reach every exit of recv's if-chain and start every kind
\* of worker (cancel-pairing, cancel-remove and set-credentials requests take
\* the path of start-pairing, remove and set-pin).
RouterMsgs ==
  {BadJson, JsonScalar, J("-"), J("PLUGIN_UNLOAD_REQUEST")}
    \cup {J(t) : t \in {"UNKNOWN", "API_HANDLER_API_REQUEST",
                        "OUTLET_NOTIFY_REQUEST", "ADAPTER_UNLOAD_REQUEST",
                        "DEVICE_SET_PROPERTY_COMMAND"}}
    \cup {D("UNKNOWN")}
    \cup {[D("UNKNOWN") EXCEPT !.notifierId = "n9"]}
    \cup {[D("UNKNOWN") EXCEPT !.adapterId = "a9"]}
    \cup {[D("UNKNOWN") EXCEPT !.adapterId = "a1", !.deviceId = "d1"]}
    \cup {[D("API_HANDLER_UNLOAD_REQUEST") EXCEPT !.packageName = h] :
            h \in {"h1", "h9"}}
    \cup {[D("API_HANDLER_API_REQUEST")
             EXCEPT !.packageName = h, !.messageId = "m1", !.payload = "y"] :
            h \in {"-", "h1"}}
    \cup {[D("NOTIFIER_UNLOAD_REQUEST") EXCEPT !.notifierId = "n1"]}
    \cup {[D("OUTLET_NOTIFY_REQUEST")
             EXCEPT !.notifierId = "n1", !.outletId = "o1",
                    !.messageId = "m1", !.payload = "y"]}
    \cup {[D("DEVICE_SET_PROPERTY_COMMAND")
             EXCEPT !.notifierId = "n1", !.adapterId = "a1",
                    !.deviceId = "d1", !.propertyName = "p1",
                    !.propertyValue = 1]}
    \cup {[D("ADAPTER_START_PAIRING_COMMAND")
             EXCEPT !.adapterId = "a1", !.timeout = t] : t \in {"-", "60"}}
    \cup {[D(t) EXCEPT !.adapterId = "a1"] :
            t \in {"ADAPTER_UNLOAD_REQUEST",
                   "ADAPTER_REMOVE_DEVICE_REQUEST"}}
    \cup {[D(t) EXCEPT !.adapterId = "a1", !.deviceId = "d1"] :
            t \in {"ADAPTER_REMOVE_DEVICE_REQUEST"}}
    \cup {SetProperty("d1", "p1", 1), SetProperty("d1", "p1", MaxVal)}
    \cup {RequestAction("d1", "x1", "act2", Absent)}
    \cup {[DeviceRequest("DEVICE_REMOVE_ACTION_REQUEST", "d1")
             EXCEPT !.actionId = "x1", !.actionName = "act2"]}
    \cup {DeviceRequest(t, "d1") :
            t \in {"DEVICE_SET_PIN_REQUEST"}}

\* The proxy with property p1 of device d1 as the add-on set it up.
InitRouter(vals, ffs) ==
  /\ value \in vals
  /\ description = RouterDescription
  /\ fire_and_forget \in ffs
  /\ bypassed = FALSE
  /\ lastCall = NoCall
  /\ ProxyInit
  /\ ipc = IpcRegistered

Init == InitRouter({NoneVal}, {FALSE})

Next ==
  \/ \E m \in RouterMsgs : Read(m)
  \/ ReadError
  \/ ReadEmpty
  \/ HandleDrop
  \/ HandleRaise
  \/ HandleUnloadPlugin
  \/ HandleUnload
  \/ HandleDispatch
  \/ \E i \in 1 .. MaxMsgs :
       \/ close_fn(i)
       \/ unload_fn(i)
       \/ AdapterHook(i)
       \/ RemoveThing(i)
       \/ set_prop_fn(i)
       \/ request_action_fn(i)
       \/ remove_action_fn(i)
       \/ set_pin_fn(i)
       \/ request_fn(i)
       \/ notify_fn(i)

\* The receive loop with every kind of inbound message.
Spec == Init /\ [][Next]_vars

InitSetProperty == InitRouter({NoneVal, 1}, BOOLEAN)

NextSetProperty ==
  \/ \E m \in SetPropertyMsgs : Read(m)
  \/ HandleDispatch
  \/ \E i \in 1 .. MaxMsgs : set_prop_fn(i)

\* The receive loop with setProperty messages only.
SpecSetProperty == InitSetProperty /\ [][NextSetProperty]_vars

NextAction ==
  \/ \E m \in RequestActionMsgs : Read(m)
  \/ HandleDispatch
  \/ \E i \in 1 .. MaxMsgs : request_action_fn(i)

\* The receive loop with requestAction messages only.
SpecAction == Init /\ [][NextAction]_vars

SetPinMsgs ==
  {[DeviceRequest(t, dev) EXCEPT !.messageId = mid] :
     t \in {"DEVICE_SET_PIN_REQUEST", "DEVICE_SET_CREDENTIALS_REQUEST"},
     dev \in {"d1", "d9"}, mid \in {"m1", "m2"}}

NextSetPin ==
  \/ \E m \in SetPinMsgs : Read(m)
  \/ HandleDispatch
  \/ \E i \in 1 .. MaxMsgs : set_pin_fn(i)

\* The receive loop with set-pin and set-credentials requests only.
SpecSetPin == Init /\ [][NextSetPin]_vars

NotifyMsgs ==
  {[D("OUTLET_NOTIFY_REQUEST")
      EXCEPT !.notifierId = "n1", !.outletId = o, !.messageId = mid,
             !.payload = "y"] :
     o \in {"o1", "o9"}, mid \in {"m1", "m2"}}

NextNotify ==
  \/ \E m \in NotifyMsgs : Read(m)
  \/ HandleDispatch
  \/ \E i \in 1 .. MaxMsgs : notify_fn(i)

\* The receive loop with notify-outlet requests only.
SpecNotify == Init /\ [][NextNotify]_vars

\* A set-pin and a set-credentials request for d1, and the request that
\* removes d1.
PinRemovalMsgs ==
  {DeviceRequest(t, "d1") :
     t \in {"DEVICE_SET_PIN_REQUEST", "DEVICE_SET_CREDENTIALS_REQUEST"}}
    \cup {[D("ADAPTER_REMOVE_DEVICE_REQUEST")
             EXCEPT !.adapterId = "a1", !.deviceId = "d1"]}

NextPinRemoval ==
  \/ \E m \in PinRemovalMsgs : Read(m)
  \/ HandleDispatch
  \/ \E i \in 1 .. MaxMsgs :
       \/ set_pin_fn(i)
       \/ RemoveThing(i)

\* The receive loop with set-pin and set-credentials requests and the
\* removal of their device.
SpecPinRemoval == Init /\ [][NextPinRemoval]_vars

\* A request-action and a remove-action request for d1, and the request that
\* removes d1.
ActionRemovalMsgs ==
  {RequestAction("d1", "x1", "act2", Absent)}
    \cup {[DeviceRequest("DEVICE_REMOVE_ACTION_REQUEST", "d1")
             EXCEPT !.actionId = a, !.actionName = n] :
            a \in ActionIds, n \in {"act2", "act9"}}
    \cup {[D("ADAPTER_REMOVE_DEVICE_REQUEST")
             EXCEPT !.adapterId = "a1", !.deviceId = "d1"]}

NextActionRemoval ==
  \/ \E m \in ActionRemovalMsgs : Read(m)
  \/ HandleDispatch
  \/ \E i \in 1 .. MaxMsgs :
       \/ request_action_fn(i)
       \/ remove_action_fn(i)
       \/ RemoveThing(i)

\* The receive loop with request-action and remove-action requests and the
\* removal of their device.
SpecActionRemoval == Init /\ [][NextActionRemoval]_vars

\* The unload requests: of the plug-in, with and without data, and of the
\* adapter, the notifier and the API handler.
UnloadMsgs ==
  {J("PLUGIN_UNLOAD_REQUEST"), D("PLUGIN_UNLOAD_REQUEST")}
    \cup {[D("ADAPTER_UNLOAD_REQUEST") EXCEPT !.adapterId = "a1"]}
    \cup {[D("NOTIFIER_UNLOAD_REQUEST") EXCEPT !.notifierId = "n1"]}
    \cup {[D("API_HANDLER_UNLOAD_REQUEST") EXCEPT !.packageName = "h1"]}

NextUnload ==
  \/ \E m \in UnloadMsgs : Read(m)
  \/ HandleUnloadPlugin
  \/ HandleUnload
  \/ \E i \in 1 .. MaxMsgs :
       \/ close_fn(i)
       \/ unload_fn(i)

\* The receive loop with unload requests only, where a started close_fn
\* thread is scheduled: it is not left waiting forever while it can run.
SpecUnload ==
  Init /\ [][NextUnload]_vars /\ WF_vars(\E i \in 1 .. MaxMsgs : close_fn(i))

\* --- Adapter.handle_device_added(device), called by the add-on:
\* self.devices[device.id] = device, then the proxy sends
\* DEVICE_ADDED_NOTIFICATION.
handle_device_added(d) ==
  /\ Len(log[0]) < MaxLog
  /\ devices' = devices \cup {d}
  /\ membership' = [membership EXCEPT ![d] = "added"]
  /\ log' = [log EXCEPT ![0] =
               send(@, sockets,
                    [Entry("send", "DEVICE_ADDED_NOTIFICATION", 0)
                       EXCEPT !.ad = "a1", !.dev = d])]
  /\ UNCHANGED <<action, now, ipc, propVars, cellVars, adapters, notifiers,
                 api_handlers, loopVars, workers>>

\* --- Adapter.handle_device_removed(device), called by the add-on: the id
\* is deleted from self.devices if it is there, and the proxy sends
\* ADAPTER_REMOVE_DEVICE_RESPONSE either way.
handle_device_removed(d) ==
  /\ Len(log[0]) < MaxLog
  /\ devices' = devices \ {d}
  /\ membership' = [membership EXCEPT ![d] = "removed"]
  /\ log' = [log EXCEPT ![0] =
               send(@, sockets,
                    [Entry("send", "ADAPTER_REMOVE_DEVICE_RESPONSE", 0)
                       EXCEPT !.ad = "a1", !.dev = d])]
  /\ UNCHANGED <<action, now, ipc, propVars, cellVars, adapters, notifiers,
                 api_handlers, loopVars, workers>>

\* The requests addressed to adapter a1 and its device d1 that start a
\* worker: pairing, removal and its cancellation, set-property,
\* request-action and set-pin.
DeviceMsgs ==
  {[D("ADAPTER_START_PAIRING_COMMAND")
      EXCEPT !.adapterId = "a1", !.timeout = "60"]}
    \cup {[D(t) EXCEPT !.adapterId = "a1", !.deviceId = "d1"] :
            t \in {"ADAPTER_REMOVE_DEVICE_REQUEST",
                   "ADAPTER_CANCEL_REMOVE_DEVICE_COMMAND"}}
    \cup {SetProperty("d1", "p1", 1), SetProperty("d1", "p1", MaxVal)}
    \cup {RequestAction("d1", "x1", "act2", Absent)}
    \cup {DeviceRequest("DEVICE_SET_PIN_REQUEST", "d1")}

NextDevices ==
  \/ \E m \in DeviceMsgs : Read(m)
  \/ HandleDispatch
  \/ \E d \in DeviceIds :
       \/ handle_device_added(d)
       \/ handle_device_removed(d)
  \/ \E i \in 1 .. MaxMsgs :
       \/ AdapterHook(i)
       \/ RemoveThing(i)
       \/ set_prop_fn(i)
       \/ request_action_fn(i)
       \/ set_pin_fn(i)

\* The receive loop with the requests for adapter a1 and device d1, while
\* the add-on handles and drops devices on its own thread.
SpecDevices == Init /\ [][NextDevices]_vars

\* Add-on code calling send directly.
SpecSend == Init /\ [][NextSend]_vars

\* Add-on code working on the Action objects of d1.
SpecActionObject == Init /\ [][NextActionObject]_vars

InitIpc ==
  /\ value = NoneVal
  /\ description = RouterDescription
  /\ fire_and_forget = FALSE
  /\ bypassed = FALSE
  /\ lastCall = NoCall
  /\ ProxyInit
  /\ ipc = IpcStart

\* The registration handshake of IpcClient.__init__.  The main thread keeps
\* running, so its wait loop is left once it can be; nothing obliges the
\* gateway to send a frame or to keep the connection.
SpecIpc == InitIpc /\ [][NextIpc]_vars /\ WF_vars(Wait)

\* ------------------------------------------------------------- claims

\* Worker i was started for a setProperty message addressed to p1 of d1.
ForP1(i) ==
  /\ Me(i).fn = "set_prop_fn"
  /\ Me(i).own.deviceId = "d1"
  /\ Me(i).own.propertyName = "p1"

\* The change notifications in log[i] that carry value v.
Changes(i, v) ==
  SelectSeq(log[i], LAMBDA e : e.via = "property" /\ e.val = v)

\* C1: two setProperty messages for the same property with different valid
\* values, handled by concurrent workers that each write the value of their
\* own message: once both are done the cached value is one of the two
\* values, and exactly one change notification carries it, emitted by the
\* worker whose value is cached.
C1_OneWinnerOneNotification ==
  (/\ Len(workers) = 2
   /\ \A i \in {1, 2} :
        /\ ForP1(i)
        /\ Me(i).pc = "done"
        /\ Me(i).v = Me(i).own.propertyValue
        /\ Check(description, Me(i).v) = "ok"
   /\ Me(1).v # Me(2).v)
    => /\ value \in {Me(1).v, Me(2).v}
       /\ \A i \in {1, 2} :
            Len(Changes(i, value)) = IF Me(i).v = value THEN 1 ELSE 0

UnloadAcked ==
  \E k \in DOMAIN log[0] : log[0][k].mt = "PLUGIN_UNLOAD_RESPONSE"

C3_OnlyUnloadEndsLoop ==
  (msg.json /\ msg.messageType # "PLUGIN_UNLOAD_REQUEST")
    => loop \in {"reading", "break_error"}

\* recv leaves the decoding of message m with nothing sent and no thread
\* started, and is back at the read.
Dropped ==
  /\ loop' = "reading"
  /\ log' = log
  /\ workers' = workers

\* The step in which recv handles the message it has read.
HandlesMsg == loop = "decoding" /\ loop' # "decoding"

C5_ReadFailureClearsRunning ==
  loop = "break_error" => ~running

\* The candidate of the setProperty message worker i was started for
\* violates a constraint of p1.
Violating(i) ==
  /\ ForP1(i)
  /\ Check(description, Me(i).own.propertyValue) # "ok"

\* Worker i has assigned self.value.
Stored(i) ==
  \/ Me(i).pc \in {"compare", "notify", "forget"}
  \/ /\ Me(i).pc = "done"
     /\ Me(i).v # Absent
     /\ Check(description, Me(i).v) = "ok"

\* C6: the worker of a setProperty message whose value violates a
\* constraint never assigns the cached value, lets no exception escape and
\* ends having sent one property-changed notification, which carries the
\* cached value and not the candidate.
C6_RejectedSetPropertyNotifiesUnchanged ==
  \A i \in DOMAIN workers :
    Violating(i)
      => /\ Me(i).pc # "crashed"
         /\ ~Stored(i)
         /\ Me(i).pc = "done"
              => /\ Len(log[i]) = 1
                 /\ log[i][1].mt = "DEVICE_PROPERTY_CHANGED_NOTIFICATION"
                 /\ log[i][1].val # Me(i).own.propertyValue
                 /\ (\A j \in DOMAIN workers : ~Stored(j))
                      => log[i][1].val = value

\* The requestAction message worker i was started for names an action that
\* d1 does not declare, or carries an input that fails the action's schema.
Unacceptable(i) ==
  /\ Me(i).fn = "request_action_fn"
  /\ \/ Me(i).own.actionName \notin DeclaredActions
     \/ ~ValidInput(Me(i).own.actionName, Me(i).own.input)

\* C7: the worker of a requestAction message with an undeclared action name
\* or an invalid input constructs no Action, does not call perform_action,
\* reports no failure and lets no exception escape.
C7_UnacceptableActionIgnored ==
  \A i \in DOMAIN workers :
    Unacceptable(i)
      => /\ Me(i).pc # "crashed"
         /\ \A k \in DOMAIN log[i] :
              /\ log[i][k].ev \notin {"new", "hook"}
              /\ log[i][k].ok # "false"

\* Whether the stored value v satisfies every constraint of description d.
Satisfies(d, v) ==
  /\ d.readOnly # "true"
  /\ d.minimum # Absent => v >= d.minimum
  /\ d.maximum # Absent => v <= d.maximum
  /\ d.multipleOf # Absent => \E k \in 0 .. v : k * d.multipleOf = v
  /\ d.enum # {} => v \in d.enum

C9_OutOfRangeRejected ==
  (/\ lastCall.op = "set_value"
   /\ \/ description.minimum # Absent /\ lastCall.arg < description.minimum
      \/ description.maximum # Absent /\ lastCall.arg > description.maximum)
    => /\ lastCall.err # "ok"
       /\ value = lastCall.old
       /\ ~lastCall.notified
       /\ Len(log[0]) = lastCall.logLen

C9_Witness ==
  /\ lastCall.op = "set_value"
  /\ description.readOnly # "true"
  /\ description.minimum # Absent
  /\ lastCall.arg < description.minimum
  /\ value # NoneVal
  /\ Len(log[0]) > 0

\* C10: set_value on a readOnly property raises PropertyError for every
\* candidate and leaves the cached value unchanged.
C10_ReadOnlyAlwaysRaises ==
  (lastCall.op = "set_value" /\ description.readOnly = "true")
    => /\ lastCall.err = "readOnly"
       /\ value = lastCall.old
       /\ ~lastCall.notified

C10_Witness ==
  /\ lastCall.op = "set_value"
  /\ description.readOnly = "true"
  /\ lastCall.arg = lastCall.old
  /\ CheckNoReadOnly(description, lastCall.arg) = "ok"

\* Every constraint of d other than multipleOf lets v pass.
OthersPass(d, v) == Check([d EXCEPT !.multipleOf = Absent], v) = "ok"

SameValueTwice ==
  /\ lastCall.op = "set_value"
  /\ lastCall.err = "ok"
  /\ lastCall.prev.op = "set_value"
  /\ lastCall.prev.err = "ok"
  /\ lastCall.prev.arg = lastCall.arg

\* The last call sent exactly the notifications that `notified` says.
NotifiedInLog ==
  IF lastCall.notified
  THEN /\ Len(log[0]) = lastCall.logLen + 1
       /\ log[0][Len(log[0])] = Stamp(PropertyChanged(0, value, "property"))
  ELSE Len(log[0]) = lastCall.logLen

\* C12 as stated: two consecutive set_value calls with the same valid value
\* v, the cached value before the first differing from v, notify the device
\* on the first call and not on the second; set_value notifies only when
\* the stored value after the call differs from the one before it.
C12_FirstNotifiesSecondSilent ==
  /\ (SameValueTwice /\ lastCall.prev.old # lastCall.arg)
       => lastCall.prev.notified /\ ~lastCall.notified
  /\ (lastCall.op = "set_value" /\ lastCall.notified)
       => lastCall.old # value

\* C12 as amended: the same, the cached value before the first call
\* differing from the value that is stored for v (bool(v) for a boolean
\* property, v otherwise).
C12_FirstNotifiesSecondSilentStored ==
  /\ (/\ SameValueTwice
      /\ lastCall.prev.old # set_cached_value(description, lastCall.arg))
       => lastCall.prev.notified /\ ~lastCall.notified
  /\ lastCall.op = "set_value"
       => /\ lastCall.notified <=> lastCall.old # value
          /\ NotifiedInLog

C12_Witness ==
  /\ SameValueTwice
  /\ lastCall.prev.old # set_cached_value(description, lastCall.arg)
  /\ lastCall.prev.old # NoneVal
  /\ lastCall.prev.notified
  /\ ~lastCall.notified
  /\ Len(log[0]) = 1

\* C13: the status of an Action only moves forward along created ->
\* pending -> completed: no call of start() or finish() takes it back to an
\* earlier stage.
C13_StatusNeverGoesBack ==
  \A id \in ActionIds : ~action[id].back

\* The action-status notifications sent so far with the given status for
\* action id, as positions in the log of the add-on's thread.
StatusNotes(id, st) ==
  {k \in DOMAIN log[0] :
     /\ log[0][k].mt = "DEVICE_ACTION_STATUS_NOTIFICATION"
     /\ log[0][k].aid = id
     /\ log[0][k].ok = st}

\* C14: every notification with status completed is preceded by a
\* notification with status pending for the same action.
C14_CompletedPrecededByPending ==
  \A id \in ActionIds :
    \A k \in StatusNotes(id, "completed") :
      \E j \in StatusNotes(id, "pending") : j < k

\* C15: an Action is constructed with status created and no completion
\* time; after start() followed by finish() its status is completed and
\* its completion time is set and not earlier than its request time.
C15_FinishedActionIsCompleted ==
  \A id \in ActionIds :
    /\ action[id].last = "init"
         => /\ action[id].status = "created"
            /\ action[id].time_completed = NoneVal
            /\ action[id].time_requested # NoneVal
    /\ action[id].last = "finish"
         => /\ action[id].status = "completed"
            /\ action[id].time_completed # NoneVal
            /\ action[id].time_completed >= action[id].time_requested

C15_Witness ==
  /\ action["x1"].last = "finish"
  /\ action["x1"].time_completed > action["x1"].time_requested
  /\ \E j \in StatusNotes("x1", "pending") :
       \E k \in StatusNotes("x1", "completed") :
         /\ k = j + 1
         /\ log[0][k].val = action["x1"].time_completed

\* C18: every message handed to the owner's message handler arrived after
\* registration had completed.
C18_UnregisteredMessagesDiscarded ==
  \A k \in DOMAIN ipc.handed : ipc.handed[k].reg

\* C19: once the transport has closed or failed without a register
\* response having arrived (the register request sent or not),
\* IpcClient.__init__ stops waiting.
C19_HandshakeEnds ==
  (~ipc.registered /\ ipc.ws = "closed") ~> (ipc.init # "waiting")

\* C20: every envelope written by send has a messageType and a data object
\* whose pluginId is the plugin's id, whatever the caller passed as data.
C20_EnvelopeCarriesPluginId ==
  \A t \in DOMAIN log :
    \A k \in DOMAIN log[t] :
      log[t][k].ev = "send"
        => /\ log[t][k].pluginId = plugin_id
           /\ log[t][k].mt # "-"

C20_Witness ==
  /\ Len(log[0]) = 2
  /\ log[0][1].via = "None"
  /\ log[0][1].pluginId = plugin_id
  /\ log[0][2].via = "dict"
  /\ log[0][2].name = "m"
  /\ log[0][2].pluginId = plugin_id
  /\ sockets = "closed"

\* C16: the worker of a set-pin or set-credentials request answers with one
\* response that carries the request's message id: for a device the
\* adapter does not hold, success false and the device id; for a device it
\* holds, success true and the device's description.
C16_SetPinResponseMatchesRequest ==
  \A i \in DOMAIN workers :
    Me(i).fn \in {"set_pin_fn", "set_credentials_fn"}
      => /\ Me(i).pc # "crashed"
         /\ Me(i).pc = "done"
              => /\ Len(Sent(log[i])) = 1
                 /\ LET r == Sent(log[i])[1]
                    IN  /\ r.mid = Me(i).own.messageId
                        /\ r.dev = Me(i).own.deviceId
                        /\ IF Me(i).own.deviceId \in devices
                           THEN r.ok = "true" /\ r.via = "device"
                           ELSE r.ok = "false" /\ r.via = "deviceId"

\* C17: the worker of a notify-outlet request for a known outlet answers
\* with exactly one response, keyed by the request's message id, after
\* calling the outlet's notify; for an unknown outlet it sends nothing.
C17_NotifyResponseMatchesRequest ==
  \A i \in DOMAIN workers :
    Me(i).fn = "outlet_notify"
      => /\ Me(i).pc # "crashed"
         /\ Me(i).pc = "done"
              => IF Me(i).own.outletId \in Outlets
                 THEN /\ Len(Sent(log[i])) = 1
                      /\ Sent(log[i])[1].mid = Me(i).own.messageId
                      /\ Sent(log[i])[1].dev = Me(i).own.outletId
                      /\ Sent(log[i])[1].ok \in {"true", "false"}
                 ELSE log[i] = << >>

\* C21: every dispatched worker acts on the message that caused its
\* dispatch: the message id, the value, the action id and the names it reads
\* are those of its own request, and so are the message id and the device
\* of every response it sends, also when the loop has read later messages
\* before the worker runs.
C21_WorkerUsesOwnMessage ==
  \A i \in DOMAIN workers :
    Me(i).fn \in DeviceBranches \ {"remove_thing", "cancel_remove_thing"}
      => /\ Me(i).mid \in {"-", Me(i).own.messageId}
         /\ Me(i).aid \in {"-", Me(i).own.actionId}
         /\ Me(i).v \in {Absent, Me(i).own.propertyValue}
         /\ Me(i).name \in {"-", Me(i).own.propertyName,
                            Me(i).own.actionName}
         /\ \A k \in DOMAIN log[i] :
              log[i][k].ev = "send"
                => /\ log[i][k].mid \in {"-", Me(i).own.messageId}
                   /\ log[i][k].dev \in {"-", Me(i).own.deviceId}

\* C22: a set-pin or set-credentials worker that runs concurrently with
\* the removal of its device never ends with an uncaught error raised on
\* the device it resolves, and once it has returned it has sent exactly one
\* response.
C22_PinWorkerSurvivesRemoval ==
  \A i \in DOMAIN workers :
    Me(i).fn \in {"set_pin_fn", "set_credentials_fn"}
      => /\ ~(Me(i).pc = "crashed" /\ Me(i).res = "AttributeError")
         /\ Me(i).pc = "done" => Len(Sent(log[i])) = 1

\* C23: a request-action or remove-action worker whose device is no longer
\* held when it resolves it does nothing: its next step invokes no device
\* hook and sends no response.
C23_GoneDeviceNoHookNoResponse ==
  [][\A i \in DOMAIN workers :
       (/\ Me(i).fn \in {"request_action_fn", "remove_action_fn"}
        /\ Me(i).pc = "respond"
        /\ Me(i).dev = "-")
         => log'[i] = log[i]]_vars

\* Worker i was started for a requestAction message that d1 accepts: the
\* action name is declared and the input passes its schema.
ForAcceptedAction(i) ==
  /\ Me(i).fn = "request_action_fn"
  /\ Me(i).own.deviceId \in devices
  /\ Me(i).own.actionName \in DeclaredActions
  /\ ValidInput(Me(i).own.actionName, Me(i).own.input)

\* C24: a worker started for a request-action on a present device with a
\* declared action name and valid input does not end with an uncaught error,
\* and when it has returned it has, in this order, constructed the Action of
\* the requested id and name with status created, invoked the perform hook
\* on it, and sent exactly one response keyed by that id and name, with
\* success true when the hook returned and false when it raised ActionError.
C24_AcceptedActionPerformedThenAnswered ==
  \A i \in DOMAIN workers :
    ForAcceptedAction(i)
      => /\ Me(i).pc # "crashed"
         /\ Me(i).pc = "done"
              => /\ Len(log[i]) = 3
                 /\ log[i][1].ev = "new" /\ log[i][1].ok = "created"
                 /\ log[i][2].ev = "hook"
                 /\ log[i][2].mt = "perform_action"
                 /\ log[i][3].ev = "send"
                 /\ log[i][3].mt = "DEVICE_REQUEST_ACTION_RESPONSE"
                 /\ \A k \in 1 .. 3 :
                      /\ log[i][k].aid = Me(i).own.actionId
                      /\ log[i][k].name = Me(i).own.actionName
                 /\ log[i][3].ok = "true" <=> log[i][2].via = "ok"
                 /\ log[i][3].ok = "false" <=> log[i][2].via = "ActionError"

\* An Action object of the given id and name has been constructed on d1.
ExistingAction(aid, name) ==
  \E j \in DOMAIN log : \E l \in DOMAIN log[j] :
    /\ log[j][l].ev = "new"
    /\ log[j][l].aid = aid
    /\ log[j][l].name = name

\* C25: the remove-action worker invokes the device's cancel hook only when
\* an existing action with the requested id and name is found on the
\* device; the response that follows the hook reports success true when the
\* hook returned and success false when it raised ActionError.
C25_CancelOnlyExistingAction ==
  \A i \in DOMAIN workers : \A k \in DOMAIN log[i] :
    (log[i][k].ev = "hook" /\ log[i][k].mt = "cancel_action")
      => /\ ExistingAction(log[i][k].aid, log[i][k].name)
         /\ k < Len(log[i])
              => /\ log[i][k + 1].ev = "send"
                 /\ log[i][k + 1].ok = "true" <=> log[i][k].via = "ok"

\* C26: the receive loop never runs add-on logic itself and never waits for
\* a worker: a step of the loop logs no hook call on the loop's thread,
\* moves no existing worker, and leaves the worker it starts at its first
\* instruction with nothing done; every hook call is logged on a worker
\* thread.
C26_LoopNeitherRunsNorAwaitsWorkers ==
  [][(loop' # loop \/ nread' # nread)
       => /\ \A k \in DOMAIN log'[0] : log'[0][k].ev \notin {"hook", "new"}
          /\ \A i \in DOMAIN workers :
               workers'[i] = workers[i] /\ log'[i] = log[i]
          /\ \A i \in DOMAIN workers' \ DOMAIN workers :
               workers'[i].pc = "start" /\ log'[i] = << >>]_vars

\* The loop has dispatched the second message while the first worker has
\* not run yet, and the second worker has called its hook.
C26_Witness ==
  /\ Len(workers) = 2
  /\ loop = "reading"
  /\ workers[1].pc = "start"
  /\ workers[2].pc = "done"
  /\ \E k \in DOMAIN log[2] : log[2][k].ev = "hook"

\* C27: once the loop has left on an unload-plugin request, the deferred
\* worker, when it is scheduled, eventually clears the running flag and
\* closes the transport, with the loop stopped.
C27_UnloadEventuallyCloses ==
  (loop = "break_unload")
    ~> (loop = "break_unload" /\ ~running /\ sockets = "closed")

\* The deferred worker has finished the teardown that the unload-plugin
\* request started, next to the worker of an earlier unload request.
C27_Witness ==
  /\ loop = "break_unload"
  /\ Len(workers) = 2
  /\ workers[2].fn = "close_fn"
  /\ workers[2].pc = "done"
  /\ ~running
  /\ sockets = "closed"

\* C28: the unload-plugin check precedes the data check: handling an
\* unload-plugin request without data sends the acknowledgment, starts the
\* close worker and ends the loop, whereas handling a message of any other
\* type without data drops it.
C28_UnloadCheckedBeforeData ==
  [][(/\ HandlesMsg
      /\ msg.valid
      /\ msg.messageType # "-"
      /\ ~msg.hasData)
       => IF msg.messageType = "PLUGIN_UNLOAD_REQUEST"
          THEN /\ loop' = "break_unload"
               /\ Len(log'[0]) = Len(log[0]) + 1
               /\ log'[0][Len(log'[0])].mt = "PLUGIN_UNLOAD_RESPONSE"
               /\ Len(workers') = Len(workers) + 1
               /\ workers'[Len(workers')].fn = "close_fn"
          ELSE Dropped]_vars

\* A message of another type without data was dropped, and then an
\* unload-plugin request without data was acknowledged and started the
\* teardown.
C28_Witness ==
  /\ loop = "break_unload"
  /\ nread = 2
  /\ msg.messageType = "PLUGIN_UNLOAD_REQUEST"
  /\ ~msg.hasData
  /\ UnloadAcked
  /\ Len(workers) = 1
  /\ workers[1].fn = "close_fn"
  /\ workers[1].pc = "start"

\* C29: a message whose data carries a notifierId is never handled by the
\* adapter branch, whether the notifier is unknown, the sub-type is not a
\* notifier sub-type, or the message also carries an adapterId and an
\* adapter-scoped type: handling it assigns neither adapter_id nor
\* device_id, changes neither the adapters nor the devices, and starts no
\* adapter or device worker.
C29_NotifierMessageSkipsAdapterBranch ==
  [][(/\ HandlesMsg
      /\ msg.valid
      /\ msg.messageType # "-"
      /\ msg.hasData
      /\ msg.notifierId # "-")
       => /\ adapter_id' = adapter_id
          /\ device_id' = device_id
          /\ adapters' = adapters
          /\ devices' = devices
          /\ \A i \in DOMAIN workers' \ DOMAIN workers :
               workers'[i].fn \notin AdapterBranches]_vars

\* A setProperty command addressed to adapter a1 and device d1 that also
\* carries the id of notifier n1 has been handled without a worker.
C29_Witness ==
  /\ loop = "reading"
  /\ nread = 1
  /\ msg.json
  /\ msg.messageType = "DEVICE_SET_PROPERTY_COMMAND"
  /\ msg.notifierId = "n1"
  /\ msg.adapterId = "a1"
  /\ adapter_id = "-"
  /\ workers = << >>

\* Worker i is the unload worker of an adapter.
UnloadsAdapter(i) == Me(i).fn = "adapter_unload"

\* What holds of the unload worker of an adapter at any time: the adapter
\* is out of the registry, the hook comes first in the worker's log, the
\* acknowledgment comes second and carries the adapter's id, it has been
\* sent once the worker has returned with the transport open, and no
\* adapter or device worker was started later for that adapter id.
AdapterUnloaded ==
  \A i \in DOMAIN workers :
    UnloadsAdapter(i)
      => /\ Me(i).arg = Me(i).own.adapterId
         /\ Me(i).arg \notin adapters
         /\ Len(log[i]) <= 2
         /\ \A k \in DOMAIN log[i] :
              IF k = 1
              THEN /\ log[i][k].ev = "hook"
                   /\ log[i][k].mt = "unload"
                   /\ log[i][k].ad = Me(i).arg
              ELSE /\ log[i][k].ev = "send"
                   /\ log[i][k].mt = "ADAPTER_UNLOAD_RESPONSE"
                   /\ log[i][k].ad = Me(i).arg
         /\ (Me(i).pc = "done" /\ sockets = "open") => Len(log[i]) = 2
         /\ \A j \in DOMAIN workers :
              (j > i /\ Me(j).fn \in AdapterBranches)
                => Me(j).own.adapterId # Me(i).arg

\* C30: on an unload-adapter request for a registered adapter the adapter is
\* removed from the registry, the unload hook runs on a worker and the
\* acknowledgment carrying the adapter id is sent after the hook has run;
\* every later message addressed to that adapter id is dropped as an
\* unknown adapter, with no worker spawned.
C30_UnloadedAdapterIsUnknown ==
  [][/\ AdapterUnloaded'
     /\ (/\ HandlesMsg
         /\ Branch(msg) \in AdapterBranches
         /\ \E i \in DOMAIN workers :
              UnloadsAdapter(i) /\ Me(i).arg = msg.adapterId)
          => Branch(msg) = "unknown_adapter" /\ Dropped]_vars

\* The unload worker of a1 has run the hook and sent the acknowledgment, and
\* a later setProperty command addressed to a1 has been dropped.
C30_Witness ==
  /\ loop = "reading"
  /\ nread = 2
  /\ Len(workers) = 1
  /\ UnloadsAdapter(1)
  /\ Me(1).pc = "done"
  /\ Len(log[1]) = 2
  /\ msg.json
  /\ msg.messageType = "DEVICE_SET_PROPERTY_COMMAND"
  /\ msg.notifierId = "-"
  /\ msg.adapterId = "a1"

\* Worker j is a deferred close started for the message worker i was
\* started for.
ClosesFor(j, i) == Me(j).fn = "close_fn" /\ Me(j).own = Me(i).own

\* C31: an unload-adapter request, like an unload-plugin request, triggers
\* deferred teardown: handling it starts the deferred close of the
\* transport, and the receive loop has exited only once the transport is
\* closed.
C31_AdapterUnloadTearsDown ==
  /\ \A i \in DOMAIN workers :
       UnloadsAdapter(i) => \E j \in DOMAIN workers : ClosesFor(j, i)
  /\ loop = "break_unload" => sockets = "closed"

\* C31 as amended: only the unload-plugin request triggers teardown.  Every
\* deferred close was started for an unload-plugin request, whose
\* acknowledgment was sent before the loop ended and before the close; the
\* loop has ended, the running flag is cleared and the transport is closed
\* only if such a close was started; the worker of an unload-adapter request
\* only runs the hook and sends its acknowledgment.
C31_OnlyPluginUnloadTearsDown ==
  /\ \A j \in DOMAIN workers :
       Me(j).fn = "close_fn"
         => /\ Me(j).own.messageType = "PLUGIN_UNLOAD_REQUEST"
            /\ UnloadAcked
            /\ loop = "break_unload"
  /\ (loop = "break_unload" \/ ~running \/ sockets = "closed")
       => \E j \in DOMAIN workers : Me(j).fn = "close_fn"
  /\ \A i \in DOMAIN workers :
       UnloadsAdapter(i)
         => /\ \A j \in DOMAIN workers : ~ClosesFor(j, i)
            /\ \A k \in DOMAIN log[i] :
                 log[i][k].mt \in {"unload", "ADAPTER_UNLOAD_RESPONSE"}

\* The adapter's unload was acknowledged and the loop went on to handle a
\* later unload request, with the transport open.
C31_Witness ==
  /\ nread = 2
  /\ Len(workers) = 2
  /\ UnloadsAdapter(1)
  /\ Me(1).pc = "done"
  /\ Len(log[1]) = 2
  /\ Me(2).fn = "notifier_unload"
  /\ loop = "reading"
  /\ running
  /\ sockets = "open"

\* C32: a payload that does not decode as UTF-8 JSON, and a decoded message
\* without a messageType field, is logged and skipped: handling it sends
\* nothing, starts no worker, changes no registry, and the loop goes on to
\* the next read.
C32_UndecodableOrUntypedSkipped ==
  [][(/\ HandlesMsg
      /\ \/ ~msg.valid
         \/ msg.scalar
         \/ msg.messageType = "-")
       => /\ Dropped
          /\ UNCHANGED regVars]_vars

\* C33: an inbound frame that is not valid JSON, or that fails schema
\* validation, is dropped without raising out of the message callback: the
\* call returns after its print, hands nothing to the owner's message
\* handler and does not set the registered flag.
C33_InvalidFrameDroppedQuietly ==
  [][(/\ ipc'.frames = ipc.frames + 1
      /\ ipc'.last \notin {"registering", "handed"})
       => /\ ipc'.last = "invalid"
          /\ ipc'.handed = ipc.handed
          /\ ipc'.registered = ipc.registered
          /\ ipc'.params = ipc.params]_vars

\* C34: the registered flag becomes true only in the callback of a
\* schema-valid register response, and whenever it is true the session
\* parameters have been assigned, so __init__ never returns from its wait
\* with unset parameters.
C34_RegisteredImpliesParameters ==
  [][/\ ipc'.registered => ipc'.params
     /\ ipc'.init = "returned" => ipc'.registered /\ ipc'.params
     /\ (ipc'.registered /\ ~ipc.registered)
          => ipc.last = "registering"]_vars

\* __init__ has returned from its wait on a registered session.
C34_Witness ==
  /\ ipc.init = "returned"
  /\ ipc.last = "registered"
  /\ ipc.registered
  /\ ipc.params
  /\ ipc.handed = << >>

\* Worker i was started for a setProperty message whose device the adapter
\* does not hold or whose property is not on the device.
ForMissingTarget(i) ==
  /\ Me(i).fn = "set_prop_fn"
  /\ \/ Me(i).own.deviceId \notin devices
     \/ Me(i).own.propertyName # "p1"

\* C35: the set-property worker sends nothing and changes nothing when the
\* device id is not held by the adapter or the property name is not on the
\* device: it never reaches set_value, passes it no candidate and logs no
\* outbound message.
C35_MissingTargetNoEffect ==
  \A i \in DOMAIN workers :
    ForMissingTarget(i)
      => /\ log[i] = << >>
         /\ Me(i).v = Absent
         /\ Me(i).pc \in {"start", "find", "done", "crashed"}

\* The property-changed notifications in log[i] sent on behalf of `via`:
\* "property" for set_cached_value_and_notify, "worker" for set_prop_fn.
NotificationsVia(i, via) ==
  SelectSeq(log[i], LAMBDA e : e.mt = PropertyChanged(i, 0, via).mt
                               /\ e.via = via)

\* Worker i was started for a setProperty message that p1 of d1 accepts.
ForAcceptedValue(i) ==
  /\ ForP1(i)
  /\ Me(i).own.deviceId \in devices
  /\ HasN(Me(i).own, "propertyValue")
  /\ Check(description, Me(i).own.propertyValue) = "ok"

\* C36: once the worker of an accepted setProperty message has returned,
\* it has sent one notification on behalf of the property if its store
\* changed the cached value and none if it did not, and, for a
\* fire-and-forget property, one more notification of its own.
C36_NotificationCount ==
  \A i \in DOMAIN workers :
    (ForAcceptedValue(i) /\ Me(i).pc = "done")
      => /\ Len(NotificationsVia(i, "property")) =
              IF Me(i).before
                   # set_cached_value(description, Me(i).own.propertyValue)
              THEN 1 ELSE 0
         /\ Len(NotificationsVia(i, "worker")) =
              IF fire_and_forget THEN 1 ELSE 0
         /\ Len(log[i]) = Len(NotificationsVia(i, "property"))
                            + Len(NotificationsVia(i, "worker"))

\* The order in which set_value is said to apply its checks.
CheckOrder == <<"readOnly", "minimum", "maximum", "multipleOf", "enum">>

\* Candidate v fails the check named c of description d, taken on its own.
Fails(d, v, c) ==
  IF c = "readOnly" THEN d.readOnly = "true"
  ELSE IF c = "minimum" THEN d.minimum # Absent /\ v < d.minimum
  ELSE IF c = "maximum" THEN d.maximum # Absent /\ v > d.maximum
  ELSE IF c = "multipleOf"
       THEN d.multipleOf # Absent
            /\ ~(\E k \in 0 .. v : k * d.multipleOf = v)
  ELSE d.enum # {} /\ v \notin d.enum

\* C37: set_value applies its checks in the order readOnly, minimum,
\* maximum, multipleOf, enum, and the PropertyError it raises is that of
\* the first check in this order that the candidate fails; it raises none
\* when the candidate fails no check.
C37_FirstFailingCheckWins ==
  lastCall.op = "set_value"
    => LET failing == {n \in DOMAIN CheckOrder :
                         Fails(description, lastCall.arg, CheckOrder[n])}
       IN  IF failing = {} THEN lastCall.err = "ok"
           ELSE \E n \in failing :
                  /\ \A m \in failing : n <= m
                  /\ lastCall.err = CheckOrder[n]

\* A candidate below the minimum that is also no member of the enumeration
\* was rejected for the minimum.
C37_Witness ==
  /\ lastCall.op = "set_value"
  /\ lastCall.err = "minimum"
  /\ Fails(description, lastCall.arg, "minimum")
  /\ Fails(description, lastCall.arg, "enum")

\* C38: set_cached_value bypasses every constraint check: whatever the
\* value and the description, the call raises nothing, leaves the value
\* stored (as a boolean when the declared type is boolean, as it is
\* otherwise) and sends no change notification.
C38_SetCachedValueBypassesChecks ==
  lastCall.op = "set_cached_value"
    => /\ lastCall.err = "ok"
       /\ value = IF description.type = "boolean"
                  THEN (IF lastCall.arg = 0 THEN 0 ELSE 1)
                  ELSE lastCall.arg
       /\ ~lastCall.notified
       /\ Len(log[0]) = lastCall.logLen

\* A value above the maximum was stored on a read-only integer property.
C38_Witness ==
  /\ lastCall.op = "set_cached_value"
  /\ description.type = "integer"
  /\ description.readOnly = "true"
  /\ Fails(description, lastCall.arg, "maximum")
  /\ Fails(description, lastCall.arg, "enum")
  /\ value = lastCall.arg

\* C39: the device map of adapter a1 changes only through
\* handle_device_added and handle_device_removed: after any sequence of
\* router operations and add-on calls, an id is a key of the map exactly when
\* the last membership operation for that id was handle_device_added, so
\* pairing, set-property, action, set-pin and cancel-remove workers leave
\* the map as it was.
C39_DeviceMapFollowsMembership ==
  \A d \in DeviceIds : d \in devices <=> membership[d] = "added"

\* Device d1 was removed on a router request and handled again by the
\* add-on, a later worker has finished, and d1 is held.
C39_Witness ==
  /\ \E k \in DOMAIN log[1] :
       /\ log[1][k].mt = "ADAPTER_REMOVE_DEVICE_RESPONSE"
       /\ log[1][k].dev = "d1"
  /\ \E k \in DOMAIN log[0] :
       /\ log[0][k].mt = "DEVICE_ADDED_NOTIFICATION"
       /\ log[0][k].dev = "d1"
  /\ Len(workers) = 2
  /\ workers[2].fn \in {"cancel_remove_thing", "set_prop_fn", "set_pin_fn"}
  /\ workers[2].pc = "done"
  /\ "d1" \in devices
  /\ membership["d1"] = "added"

====
